---- MODULE Spec2Model ----
(***************************************************************************)
(* Recurring-workout date matching (src/lib/recurrence.ts) and the         *)
(* dashboard's period aggregation (Dashboard.tsx) over the local record    *)
(* store (lib/storage.ts).                                                 *)
(*                                                                         *)
(* A JavaScript Date is an instant, modelled as whole hours since the Unix *)
(* epoch (UTC).  Calendar fields of a Date are read in the browser's local *)
(* time zone, modelled as Europe/Madrid around the 2024 spring-forward     *)
(* change (the night of 2024-03-31 has only 23 hours).  A 'yyyy-MM-dd'     *)
(* string is the sequence of its ten UTF-16 code units, compared the way   *)
(* JavaScript compares strings.  An optional field is <<>> when absent and *)
(* <<v>> when present.                                                     *)
(***************************************************************************)
EXTENDS Integers, Sequences, FiniteSets, TLC

VARIABLES
    workout,      \* evaluator call: the Workout argument
    targetDate,   \* evaluator call: the Date argument of the last call, if any
    result,       \* evaluator call: the outcome of the last call, if any
    workouts,     \* localStorage 'fittrack_workouts', as read by getWorkouts()
    meals,        \* localStorage 'fittrack_meals', as read by getMeals()
    statsPeriod,  \* Dashboard: the selected StatsPeriod of the current render
    now,          \* Dashboard: new Date() of the current render
    periodDates,  \* Dashboard: getPeriodDates(statsPeriod, now)
    periodData,   \* Dashboard: aggregateForPeriod(periodDates, workouts, meals)
    totalStats,   \* Dashboard: period totals and exerciseBreakdown
    avgCalories,  \* Dashboard: average calories consumed per day
    balanceNeto,  \* Dashboard: the period balance shown as 'Balance Neto'
    today,        \* Dashboard: new Date() of the latest render
    streak,       \* Dashboard: the streak counter
    checkDate,    \* Dashboard: the day the streak walk looks at
    streakPc,     \* Dashboard: position of the streak walk
    profile,      \* calculation call: the UserProfile argument
    targets,      \* calculation call: the DailyTargets returned, if any
    avgArgs,      \* calculation call: period total and number of days
    macroSums,    \* calculation call: the macro sums of one day, if computed
    response,     \* remote store: what the supabase query resolved to, if any
    fetched,      \* remote store: what the fetch function did, if called
    showForm,     \* Nutrition: whether the meal dialog is open
    editingMeal,  \* Nutrition: the meal being edited, if any
    mealType,     \* MealFormDialog: the selected meal type
    time,         \* MealFormDialog: the time field
    foods,        \* MealFormDialog: the food items of the form
    aiDescription, \* MealFormDialog: the text of the description box
    isAnalyzing,  \* MealFormDialog: the analysis-in-progress flag
    inputMode,    \* MealFormDialog: 'text' or 'image'
    analyses,     \* MealFormDialog: the analysis calls awaiting their result
    toast,        \* the notification shown last, if any
    dialogSession, \* how often the dialog's form was reset (history variable)
    loading,      \* AuthProvider: no session has been reported yet
    user,         \* AuthProvider: the id of the signed-in user, if any
    location,     \* the route shown
    onboardingDone, \* AuthGuard: null, or the onboardingComplete last fetched
    profileFetches, \* AuthGuard: the users whose getProfile is pending
    fetchedFor,   \* the user whose profile onboardingDone is from (history)
    profiles      \* remote store: the row of 'profiles' of each user, if any

evalVars == <<workout, targetDate, result>>
storeVars == <<workouts, meals>>
statsVars == <<statsPeriod, now, periodDates, periodData,
               totalStats, avgCalories, balanceNeto>>
streakVars == <<today, streak, checkDate, streakPc>>
calcVars == <<profile, targets, avgArgs, macroSums>>
fetchVars == <<response, fetched>>
dialogVars == <<showForm, editingMeal, mealType, time, foods, aiDescription,
                isAnalyzing, inputMode, analyses, toast, dialogSession>>
guardVars == <<loading, user, location, onboardingDone, profileFetches,
               fetchedFor, profiles>>
pageVars == <<fetchVars, dialogVars, guardVars>>

vars == <<evalVars, storeVars, statsVars, streakVars, calcVars, pageVars>>

----------------------------------------------------------------------------
(* Bounds of the model *)

\* number of consecutive calendar days the inputs are drawn from
NumDays == 8
\* largest recurrenceInterval drawn
MaxInterval == 3

----------------------------------------------------------------------------
(* Optional values *)

None == <<>>
Some(v) == <<v>>
IsSet(o) == o # <<>>
Val(o) == o[1]

----------------------------------------------------------------------------
(* Calendar arithmetic of the Date object and of date-fns *)

HoursPerDay == 24

\* days from 1970-01-01 to the civil date y-m-d (proleptic Gregorian)
DaysFromCivil(y, m, d) ==
    LET yy  == IF m <= 2 THEN y - 1 ELSE y
        era == yy \div 400
        yoe == yy - era * 400
        mp  == IF m > 2 THEN m - 3 ELSE m + 9
        doy == (153 * mp + 2) \div 5 + d - 1
        doe == yoe * 365 + yoe \div 4 - yoe \div 100 + doy
    IN  era * 146097 + doe - 719468

\* the civil date <<y, m, d>> of a day number
CivilFromDays(z0) ==
    LET z   == z0 + 719468
        era == z \div 146097
        doe == z - era * 146097
        yoe == (doe - doe \div 1460 + doe \div 36524 - doe \div 146096) \div 365
        doy == doe - (365 * yoe + yoe \div 4 - yoe \div 100)
        mp  == (5 * doy + 2) \div 153
        d   == doy - (153 * mp + 2) \div 5 + 1
        m   == IF mp < 10 THEN mp + 3 ELSE mp - 9
        y   == yoe + era * 400 + (IF m <= 2 THEN 1 ELSE 0)
    IN  <<y, m, d>>

\* the instant at which local clocks jump from 02:00 to 03:00
DstStart == DaysFromCivil(2024, 3, 31) * HoursPerDay + 1

\* hours the local clock is ahead of UTC at instant t
TzOffset(t) == IF t >= DstStart THEN 2 ELSE 1

\* local calendar day number of instant t
LocalDay(t) == (t + TzOffset(t)) \div HoursPerDay

\* local wall-clock hour of instant t
LocalHour(t) == (t + TzOffset(t)) % HoursPerDay

\* instant at which the local clock shows hour h of calendar day d
LocalTime(d, h) ==
    LET naive == d * HoursPerDay + h
    IN  IF TzOffset(naive - 2) = 2 THEN naive - 2 ELSE naive - 1

\* instant of local midnight of calendar day d
LocalMidnight(d) == LocalTime(d, 0)

\* Date.prototype.setHours(0, 0, 0, 0) applied to a copy of t
setHoursZero(t) == LocalMidnight(LocalDay(t))

\* weekday numbered from Monday = 0
getDay_MondayFirst(t) == (LocalDay(t) + 3) % 7

\* Date.prototype.getDay(): 0 = Sunday ... 6 = Saturday
getDay(t) == (LocalDay(t) + 4) % 7

\* Date.prototype.getTime() difference is in ms; here in hours
getTime(t) == t

\* Math.floor in place of Math.round
MathRoundDiv_Floor(n, d) == n \div d

\* Math.round(n / d) for d > 0: nearest integer, halves towards +infinity
MathRoundDiv(n, d) == (2 * n + d) \div (2 * d)

Digit(n) == 48 + n
Dash == 45

\* n written with four digits
Pad4(n) == <<Digit((n \div 1000) % 10), Digit((n \div 100) % 10),
             Digit((n \div 10) % 10), Digit(n % 10)>>
Pad2(n) == <<Digit((n \div 10) % 10), Digit(n % 10)>>

\* the string 'yyyy-MM-dd' of calendar day number d
DayStr(d) ==
    LET c == CivilFromDays(d)
    IN  Pad4(c[1]) \o <<Dash>> \o Pad2(c[2]) \o <<Dash>> \o Pad2(c[3])

\* date-fns format(date, 'yyyy-MM-dd')
format(t) == DayStr(LocalDay(t))

\* date-fns parseISO of a 'yyyy-MM-dd' string: local midnight of that day
parseISO(s) ==
    LET n(i) == s[i] - 48
        y == 1000 * n(1) + 100 * n(2) + 10 * n(3) + n(4)
        m == 10 * n(6) + n(7)
        d == 10 * n(9) + n(10)
    IN  LocalMidnight(DaysFromCivil(y, m, d))

\* JavaScript a < b on strings: lexicographic on code units
StrLess(a, b) ==
    \/ \E i \in 1..Len(a) :
         /\ i <= Len(b)
         /\ a[i] < b[i]
         /\ \A j \in 1..(i - 1) : a[j] = b[j]
    \/ /\ Len(a) < Len(b)
       /\ \A j \in 1..Len(a) : a[j] = b[j]

StrLeq(a, b) == a = b \/ StrLess(a, b)

----------------------------------------------------------------------------
(* lib/recurrence.ts *)

\* Array.prototype.includes
includes(arr, x) == \E i \in 1..Len(arr) : arr[i] = x

\* JavaScript truthiness of an optional boolean / number
TruthyBool(o) == IsSet(o) /\ Val(o)
TruthyNum(o) == IsSet(o) /\ Val(o) # 0

\* a returned boolean as an outcome
Return(b) == IF b THEN "true" ELSE "false"

\* exact match tested only inside the recurrence window
ExactMatch_WithinEnd(w, targetDateStr) ==
    /\ w.date = targetDateStr
    /\ ~(IsSet(w.recurrenceEnd) /\ StrLess(Val(w.recurrenceEnd), targetDateStr))

\* line 12: workout.date === targetDateStr
ExactMatch(w, targetDateStr) == w.date = targetDateStr

\* the `recurring` flag left out of the condition
RecurrenceApplies_IgnoringFlag(w, targetDateStr) ==
    /\ IsSet(w.recurrenceType)
    /\ Val(w.recurrenceType) # "none"
    /\ StrLeq(w.date, targetDateStr)

\* the anchor-date comparison left out of the condition
RecurrenceApplies_AnyDate(w, targetDateStr) ==
    /\ TruthyBool(w.recurring)
    /\ IsSet(w.recurrenceType)
    /\ Val(w.recurrenceType) # "none"

\* line 15: the recurrence rules are consulted
RecurrenceApplies(w, targetDateStr) ==
    /\ TruthyBool(w.recurring)
    /\ IsSet(w.recurrenceType)
    /\ Val(w.recurrenceType) # "none"
    /\ StrLeq(w.date, targetDateStr)

\* >= in place of >: the end date itself excluded
PastEnd_Inclusive(w, targetDateStr) ==
    IsSet(w.recurrenceEnd) /\ StrLeq(Val(w.recurrenceEnd), targetDateStr)

\* the end-date check left out
PastEnd_Never(w, targetDateStr) == FALSE

\* line 17: workout.recurrenceEnd && targetDateStr > workout.recurrenceEnd
PastEnd(w, targetDateStr) ==
    IsSet(w.recurrenceEnd) /\ StrLess(Val(w.recurrenceEnd), targetDateStr)

\* recurrenceDays.includes(...) without the optional chaining
WeeklyMatch_Unguarded(w, t) ==
    IF IsSet(w.recurrenceDays)
    THEN Return(includes(Val(w.recurrenceDays), getDay(t)))
    ELSE "TypeError"

\* line 25: workout.recurrenceDays?.includes(targetDate.getDay()) ?? false
WeeklyMatch(w, t) ==
    IF IsSet(w.recurrenceDays)
    THEN Return(includes(Val(w.recurrenceDays), getDay(t)))
    ELSE "false"

\* lines 31-37: whole days from the anchor's midnight to the target's midnight
DiffDays(w, t) ==
    LET start  == setHoursZero(parseISO(w.date))
        target == setHoursZero(t)
        diffMs == getTime(target) - getTime(start)
    IN  MathRoundDiv(diffMs, HoursPerDay)

\* lines 27-39
CustomMatch(w, t) ==
    IF ~TruthyNum(w.recurrenceInterval) \/ Val(w.recurrenceInterval) < 1
    THEN "false"
    ELSE Return(DiffDays(w, t) >= 0 /\ DiffDays(w, t) % Val(w.recurrenceInterval) = 0)

isWorkoutOnDate(w, t) ==
    LET targetDateStr == format(t)
    IN  IF ExactMatch(w, targetDateStr) THEN "true"
        ELSE IF RecurrenceApplies(w, targetDateStr)
        THEN IF PastEnd(w, targetDateStr) THEN "false"
             ELSE CASE Val(w.recurrenceType) = "daily"  -> "true"
                    [] Val(w.recurrenceType) = "weekly" -> WeeklyMatch(w, t)
                    [] Val(w.recurrenceType) = "custom" -> CustomMatch(w, t)
                    [] OTHER -> "false"
        ELSE "false"

----------------------------------------------------------------------------
(* Inputs of the recurrence evaluator *)

\* first calendar day of the input window, a Monday
FirstDay == DaysFromCivil(2024, 3, 25)
Days == FirstDay .. (FirstDay + NumDays - 1)

\* target instants: local midnight and 23:00 of each day of the window
TargetDates == {LocalMidnight(d) + h : d \in Days, h \in {0, 23}}

RecurrenceTypes == {None, Some("none"), Some("daily"), Some("weekly"),
                    Some("custom"), Some("monthly")}
RecurrenceIntervals == {None} \cup {Some(n) : n \in (-1)..MaxInterval}
RecurrenceDaysInputs == {None, Some(<<>>), Some(<<1, 3, 5>>)}
RecurrenceEnds == {None} \cup {Some(DayStr(d)) : d \in Days}

WorkoutInputs ==
    [id : {"w1"}, date : {DayStr(d) : d \in Days},
     exerciseType : {"gym"}, duration : {30}, caloriesBurned : {200},
     recurring : {None, Some(FALSE), Some(TRUE)},
     recurrenceType : RecurrenceTypes,
     recurrenceInterval : RecurrenceIntervals,
     recurrenceDays : RecurrenceDaysInputs,
     recurrenceEnd : RecurrenceEnds]

\* the Dashboard is not rendered
NoDashboard ==
    /\ statsPeriod = None
    /\ now = None
    /\ periodDates = <<>>
    /\ periodData = <<>>
    /\ totalStats = None
    /\ avgCalories = None
    /\ balanceNeto = None
    /\ today = None
    /\ streak = 0
    /\ checkDate = None
    /\ streakPc = "idle"

\* no calculation is called
NoCalculation ==
    /\ profile = None
    /\ targets = None
    /\ avgArgs = None
    /\ macroSums = None

\* no query of the remote store is made
NoFetch ==
    /\ response = None
    /\ fetched = None

\* the Nutrition page is not mounted
NoDialog ==
    /\ showForm = FALSE
    /\ editingMeal = None
    /\ mealType = "lunch"
    /\ time = "12:00"
    /\ foods = <<>>
    /\ aiDescription = ""
    /\ isAnalyzing = FALSE
    /\ inputMode = "text"
    /\ analyses = <<>>
    /\ toast = None
    /\ dialogSession = 0

\* the user is signed in and stays on the page
NoGuard ==
    /\ loading = FALSE
    /\ user = Some("A")
    /\ location = "/dashboard"
    /\ onboardingDone = Some(TRUE)
    /\ profileFetches = <<>>
    /\ fetchedFor = Some("A")
    /\ profiles = <<>>

\* nothing happens on the other pages
NoPages == NoFetch /\ NoDialog /\ NoGuard

InitEval ==
    /\ workout \in WorkoutInputs
    /\ targetDate = None
    /\ result = None
    /\ workouts = <<>>
    /\ meals = <<>>
    /\ NoDashboard
    /\ NoCalculation
    /\ NoPages

\* one call isWorkoutOnDate(workout, t)
Evaluate ==
    \E t \in TargetDates :
        /\ targetDate' = Some(t)
        /\ result' = Some(isWorkoutOnDate(workout, t))
        /\ UNCHANGED <<pageVars, workout, storeVars, statsVars, streakVars, calcVars>>

NextEval == Evaluate

SpecEval == InitEval /\ [][NextEval]_vars

----------------------------------------------------------------------------
(* lib/storage.ts: the record store in localStorage *)

\* Array.prototype.findIndex(r => r.id === id), 0 when there is none
findIndex(records, id) ==
    IF \E i \in 1..Len(records) : records[i].id = id
    THEN CHOOSE i \in 1..Len(records) :
             /\ records[i].id = id
             /\ \A j \in 1..(i - 1) : records[j].id # id
    ELSE 0

\* save that pushes without looking for the id
saveRecord_Push(records, r) == Append(records, r)

\* saveWorkout / saveMeal: replace the record with the same id, else push
saveRecord(records, r) ==
    LET idx == findIndex(records, r.id)
    IN  IF idx >= 1 THEN [records EXCEPT ![idx] = r] ELSE Append(records, r)

\* deleteWorkout / deleteMeal: filter(r => r.id !== id)
deleteRecord(records, id) == SelectSeq(records, LAMBDA r : r.id # id)

----------------------------------------------------------------------------
(* Dashboard.tsx: periods and aggregation *)

\* date-fns addDays: the same wall-clock time n calendar days later
addDays(t, n) == LocalTime(LocalDay(t) + n, LocalHour(t))

\* startOfWeek without the option: the week starts on Sunday
startOfWeek_Sunday(t) == LocalMidnight(LocalDay(t) - getDay(t))

\* date-fns startOfWeek(t, { weekStartsOn: 1 })
startOfWeek(t) ==
    LET day  == getDay(t)
        diff == (IF day < 1 THEN 7 ELSE 0) + day - 1
    IN  LocalMidnight(LocalDay(t) - diff)

\* date-fns startOfMonth
startOfMonth(t) ==
    LET c == CivilFromDays(LocalDay(t))
    IN  LocalMidnight(DaysFromCivil(c[1], c[2], 1))

\* date-fns endOfMonth: the last hour of the last day of the month
endOfMonth(t) ==
    LET c    == CivilFromDays(LocalDay(t))
        next == IF c[2] = 12 THEN DaysFromCivil(c[1] + 1, 1, 1)
                ELSE DaysFromCivil(c[1], c[2] + 1, 1)
    IN  LocalTime(next - 1, 23)

\* date-fns eachDayOfInterval: midnights from start's day while <= end
RECURSIVE eachDayFrom(_, _)
eachDayFrom(currentDate, endTime) ==
    IF currentDate <= endTime
    THEN <<currentDate>> \o eachDayFrom(LocalMidnight(LocalDay(currentDate) + 1), endTime)
    ELSE <<>>

eachDayOfInterval(start, end) == eachDayFrom(setHoursZero(start), end)

getPeriodDates(period, refDate) ==
    CASE period = "day"   -> <<refDate>>
      [] period = "week"  ->
            LET start == startOfWeek(refDate)
            IN  eachDayOfInterval(start, addDays(start, 6))
      [] period = "month" ->
            eachDayOfInterval(startOfMonth(refDate), endOfMonth(refDate))

\* records.reduce((s, r) => s + r[field], 0)
RECURSIVE reduceSum(_, _)
reduceSum(records, field) ==
    IF records = <<>> THEN 0
    ELSE records[1][field] + reduceSum(Tail(records), field)

\* workouts.filter(w => w.date === ds): recurrence not consulted
filterWorkouts_ByDate(ws, day) == SelectSeq(ws, LAMBDA w : w.date = format(day))

\* the filter dropping a matched workout when an earlier matched workout of
\* the day has its exercise type
filterWorkouts_MergingType(ws, day) ==
    LET matched == SelectSeq(ws, LAMBDA w : isWorkoutOnDate(w, day) = "true")
        firstOfType == SelectSeq([i \in 1..Len(matched) |-> i],
                           LAMBDA i : \A j \in 1..(i - 1) :
                               matched[j].exerciseType # matched[i].exerciseType)
    IN  [k \in 1..Len(firstOfType) |-> matched[firstOfType[k]]]

\* line 304: workouts.filter(w => isWorkoutOnDate(w, day))
filterWorkouts(ws, day) ==
    SelectSeq(ws, LAMBDA w : isWorkoutOnDate(w, day) = "true")

\* meals.filter(m => m.date <= ds): a meal counted on every later day
filterMeals_UpTo(ms, ds) == SelectSeq(ms, LAMBDA m : StrLeq(m.date, ds))

\* line 305: meals.filter(m => m.date === ds)
filterMeals(ms, ds) == SelectSeq(ms, LAMBDA m : m.date = ds)

\* line 316: format(day, dates.length > 7 ? 'd' : 'EEE')
dayLabel(day, n) ==
    IF n > 7 THEN [pattern |-> "d", value |-> CivilFromDays(LocalDay(day))[3]]
    ELSE [pattern |-> "EEE", value |-> getDay(day)]

\* Math.max(0, caloriesIn - caloriesOut): a deficit shown as zero
dayBalance_Clamped(caloriesIn, caloriesOut) ==
    IF caloriesIn - caloriesOut > 0 THEN caloriesIn - caloriesOut ELSE 0

\* line 319: caloriesIn - caloriesOut
dayBalance(caloriesIn, caloriesOut) == caloriesIn - caloriesOut

\* lines 303-326: the entry of one day
aggregateDay(day, n, ws, ms) ==
    LET ds          == format(day)
        dayWorkouts == filterWorkouts(ws, day)
        dayMeals    == filterMeals(ms, ds)
        caloriesIn  == reduceSum(dayMeals, "totalCalories")
        caloriesOut == reduceSum(dayWorkouts, "caloriesBurned")
    IN  [date           |-> day,
         label          |-> dayLabel(day, n),
         caloriesIn     |-> caloriesIn,
         caloriesOut    |-> caloriesOut,
         balance        |-> dayBalance(caloriesIn, caloriesOut),
         protein        |-> reduceSum(dayMeals, "totalProtein"),
         carbs          |-> reduceSum(dayMeals, "totalCarbs"),
         fat            |-> reduceSum(dayMeals, "totalFat"),
         workoutMinutes |-> reduceSum(dayWorkouts, "duration"),
         workoutCount   |-> Len(dayWorkouts),
         workouts       |-> dayWorkouts]

aggregateForPeriod(dates, ws, ms) ==
    [i \in 1..Len(dates) |-> aggregateDay(dates[i], Len(dates), ws, ms)]

\* line 401: the initial accumulator of the totals
ZeroTotals ==
    [caloriesIn |-> 0, caloriesOut |-> 0, protein |-> 0, carbs |-> 0, fat |-> 0,
     workoutMinutes |-> 0, workoutCount |-> 0]

\* the reducer with workoutCount counting the days that have a workout
addDay_CountingDays(d, field) ==
    IF field = "workoutCount"
    THEN (IF d.workoutCount > 0 THEN 1 ELSE 0)
    ELSE d[field]

\* lines 394-400: what the reducer adds to one field of the accumulator for
\* the entry d
addDay(d, field) == d[field]

\* lines 393-401: periodData.reduce(..., ZeroTotals), one field of the
\* accumulator after the first n entries
RECURSIVE reduceTotals(_, _, _)
reduceTotals(data, field, n) ==
    IF n = 0 THEN ZeroTotals[field]
    ELSE reduceTotals(data, field, n - 1) + addDay(data[n], field)

\* line 833: exerciseLabels
exerciseLabels ==
    [gym |-> "Gimnasio", running |-> "Correr", cycling |-> "Bicicleta",
     yoga |-> "Yoga", swimming |-> "Natacion", hiking |-> "Senderismo",
     other |-> "Otro"]

\* lines 405-406: the workouts the two forEach loops visit in the first n
\* entries, in the order they visit them
RECURSIVE visited(_, _)
visited(data, n) ==
    IF n = 0 THEN <<>>
    ELSE visited(data, n - 1) \o data[n].workouts

\* line 407: a key is created by the first visited workout of its type; the
\* object keeps its keys in that order
exerciseKeys(ws) ==
    LET created == SelectSeq([i \in 1..Len(ws) |-> i],
                       LAMBDA i : \A j \in 1..(i - 1) :
                                     ws[j].exerciseType # ws[i].exerciseType)
    IN  [k \in 1..Len(created) |-> ws[created[k]].exerciseType]

\* only the first workout of the type on a day added to the entry
addWorkout_OncePerDay(dayWorkouts, type, field) ==
    LET ofType == SelectSeq(dayWorkouts, LAMBDA w : w.exerciseType = type)
    IN  IF ofType = <<>> THEN 0 ELSE ofType[1][field]

\* lines 406-409: what the workouts of one day add to one field of the entry
\* of a type
addWorkout(dayWorkouts, type, field) ==
    reduceSum(SelectSeq(dayWorkouts, LAMBDA w : w.exerciseType = type), field)

\* lines 405-409: one field of the entry of a type after the first n entries
\* of the period; the entry starts as {minutes: 0, calories: 0}
RECURSIVE exerciseMap(_, _, _, _)
exerciseMap(data, type, field, n) ==
    IF n = 0 THEN 0
    ELSE exerciseMap(data, type, field, n - 1)
         + addWorkout(data[n].workouts, type, field)

\* lines 413-417: Object.entries(exerciseMap).map(...)
exerciseBreakdown(data) ==
    LET keys == exerciseKeys(visited(data, Len(data)))
    IN  [i \in 1..Len(keys) |->
            [type     |-> keys[i],
             label    |-> IF keys[i] \in DOMAIN exerciseLabels
                          THEN exerciseLabels[keys[i]] ELSE keys[i],
             minutes  |-> exerciseMap(data, keys[i], "duration", Len(data)),
             calories |-> exerciseMap(data, keys[i], "caloriesBurned",
                                      Len(data))]]

\* lines 392-420: totalStats
totalStatsOf(data) ==
    [totals |-> [field \in DOMAIN ZeroTotals |->
                    reduceTotals(data, field, Len(data))],
     exerciseBreakdown |-> exerciseBreakdown(data)]

\* Math.round rounding halves down
avgCaloriesOf_HalfDown(total, n) ==
    IF n # 0 THEN (2 * total + n - 1) \div (2 * n) ELSE 0

\* line 428: periodDates.length ? Math.round(caloriesIn / length) : 0
avgCaloriesOf(total, n) ==
    IF n # 0 THEN MathRoundDiv(total, n) ELSE 0

\* lines 641-642: totalStats.caloriesIn - totalStats.caloriesOut
netBalance(ts) == ts.caloriesIn - ts.caloriesOut

\* the meals left out of the test
hasActivity_WorkoutsOnly(ws, ms, day) ==
    \E i \in 1..Len(ws) : isWorkoutOnDate(ws[i], day) = "true"

\* line 382: workouts.some(...) || meals.some(...)
hasActivity(ws, ms, day) ==
    \/ \E i \in 1..Len(ws) : isWorkoutOnDate(ws[i], day) = "true"
    \/ \E i \in 1..Len(ms) : ms[i].date = format(day)

\* lines 380-386: the streak walk from day on, with the count so far
RECURSIVE streakWalk(_, _, _, _)
streakWalk(ws, ms, day, count) ==
    IF ~hasActivity(ws, ms, day) THEN [streak |-> count, checkDate |-> day]
    ELSE streakWalk(ws, ms, addDays(day, -1), count + 1)

----------------------------------------------------------------------------
(* Records saved by the Training and Nutrition pages *)

WorkoutIds == {"w1", "w2"}
MealIds == {"m1", "m2"}

NotRecurring ==
    [recurring |-> Some(FALSE), recurrenceType |-> None, recurrenceInterval |-> None,
     recurrenceDays |-> None, recurrenceEnd |-> None]
DailyUntil(d) ==
    [recurring |-> Some(TRUE), recurrenceType |-> Some("daily"), recurrenceInterval |-> None,
     recurrenceDays |-> None, recurrenceEnd |-> Some(DayStr(d))]
WeeklyOn(days) ==
    [recurring |-> Some(TRUE), recurrenceType |-> Some("weekly"), recurrenceInterval |-> None,
     recurrenceDays |-> Some(days), recurrenceEnd |-> None]
CustomEvery(n) ==
    [recurring |-> Some(TRUE), recurrenceType |-> Some("custom"), recurrenceInterval |-> Some(n),
     recurrenceDays |-> None, recurrenceEnd |-> None]

RecurrenceRules == {NotRecurring, DailyUntil(FirstDay + 6), WeeklyOn(<<1, 3, 5>>), CustomEvery(2)}

\* the exercise each workout form is filled in with
Exercises ==
    [w1 |-> {[exerciseType |-> "gym", duration |-> 30, caloriesBurned |-> 200]},
     w2 |-> {[exerciseType |-> "gym", duration |-> 60, caloriesBurned |-> 550],
             [exerciseType |-> "running", duration |-> 45, caloriesBurned |-> 300]}]

\* the days each workout form is filled in with
WorkoutDays == [w1 |-> {FirstDay, FirstDay + 5}, w2 |-> {FirstDay + 5}]

WorkoutRecords ==
    {[id |-> id, date |-> DayStr(d),
      exerciseType |-> e.exerciseType, duration |-> e.duration,
      caloriesBurned |-> e.caloriesBurned,
      recurring |-> r.recurring, recurrenceType |-> r.recurrenceType,
      recurrenceInterval |-> r.recurrenceInterval,
      recurrenceDays |-> r.recurrenceDays, recurrenceEnd |-> r.recurrenceEnd] :
        <<id, d, e>> \in UNION {{id} \X WorkoutDays[id] \X Exercises[id] : id \in WorkoutIds},
        r \in RecurrenceRules}

\* the totals the meal form stored with each meal
MealTotals ==
    [m1 |-> [totalCalories |-> 500, totalProtein |-> 30, totalCarbs |-> 60, totalFat |-> 15],
     m2 |-> [totalCalories |-> 700, totalProtein |-> 40, totalCarbs |-> 80, totalFat |-> 20]]

\* the days each meal form is filled in with
MealDays == [m1 |-> {FirstDay + 2, FirstDay + 5}, m2 |-> {FirstDay + 5}]

MealRecords ==
    {[id |-> id, date |-> DayStr(d), mealType |-> "lunch",
      totalCalories |-> MealTotals[id].totalCalories,
      totalProtein |-> MealTotals[id].totalProtein,
      totalCarbs |-> MealTotals[id].totalCarbs,
      totalFat |-> MealTotals[id].totalFat] :
        <<id, d>> \in UNION {{id} \X MealDays[id] : id \in MealIds}}

StatsPeriods == {"day", "week", "month"}

\* instants at which the Dashboard is rendered
RenderTimes == {LocalTime(FirstDay + 2, 10), LocalTime(FirstDay + 6, 23),
                LocalTime(FirstDay + 7, 9)}

----------------------------------------------------------------------------
(* The store and the Dashboard as a state machine *)

Init ==
    /\ workout = None
    /\ targetDate = None
    /\ result = None
    /\ workouts = <<>>
    /\ meals = <<>>
    /\ NoDashboard
    /\ NoCalculation
    /\ NoPages

\* The Training and Nutrition pages call the store; they are other routes
\* than the Dashboard, which is not mounted while they do.
saveWorkout ==
    \E w \in WorkoutRecords :
        /\ NoDashboard
        /\ workouts' = saveRecord(workouts, w)
        /\ UNCHANGED <<pageVars, evalVars, meals, statsVars, streakVars, calcVars>>

deleteWorkout ==
    \E id \in WorkoutIds :
        /\ NoDashboard
        /\ workouts' = deleteRecord(workouts, id)
        /\ UNCHANGED <<pageVars, evalVars, meals, statsVars, streakVars, calcVars>>

saveMeal ==
    \E m \in MealRecords :
        /\ NoDashboard
        /\ meals' = saveRecord(meals, m)
        /\ UNCHANGED <<pageVars, evalVars, workouts, statsVars, streakVars, calcVars>>

deleteMeal ==
    \E id \in MealIds :
        /\ NoDashboard
        /\ meals' = deleteRecord(meals, id)
        /\ UNCHANGED <<pageVars, evalVars, workouts, statsVars, streakVars, calcVars>>

\* lines 377-386 and 390-428 of one render: the streak walk from new Date()
\* = t, and the statistics of the period dates
RenderBody(dates, t) ==
    LET walk == streakWalk(workouts, meals, t, 0)
    IN  /\ today' = Some(t)
        /\ streak' = walk.streak
        /\ checkDate' = Some(walk.checkDate)
        /\ streakPc' = "done"
        /\ periodData' = aggregateForPeriod(dates, workouts, meals)
        /\ totalStats' = Some(totalStatsOf(periodData'))
        /\ avgCalories' = Some(avgCaloriesOf(Val(totalStats').totals.caloriesIn,
                                             Len(dates)))
        /\ balanceNeto' = Some(netBalance(Val(totalStats').totals))
        /\ UNCHANGED <<pageVars, evalVars, storeVars, calcVars>>

\* one render in which the period dates are computed, new Date() being t
Render(p, t) ==
    /\ statsPeriod' = Some(p)
    /\ now' = Some(t)
    /\ periodDates' = getPeriodDates(p, t)
    /\ RenderBody(getPeriodDates(p, t), t)

\* the route /dashboard mounts the Dashboard; statsPeriod starts as 'week'
Dashboard ==
    \E t \in RenderTimes :
        /\ NoDashboard
        /\ Render("week", t)

\* the period buttons; the render that follows reads new Date() again
setStatsPeriod ==
    \E p \in StatsPeriods, t \in RenderTimes :
        /\ IsSet(statsPeriod)
        /\ p # Val(statsPeriod)
        /\ t >= Val(today)
        /\ Render(p, t)

\* setSelectedDate, setMonthDate or setActiveSection: a render that keeps the
\* memoized period dates and computes everything else again
setSelectedDate ==
    \E t \in RenderTimes :
        /\ IsSet(statsPeriod)
        /\ t >= Val(today)
        /\ UNCHANGED <<pageVars, statsPeriod, now, periodDates>>
        /\ RenderBody(periodDates, t)

\* navigation to another route unmounts the Dashboard
LeaveDashboard ==
    /\ IsSet(statsPeriod)
    /\ statsPeriod' = None
    /\ now' = None
    /\ periodDates' = <<>>
    /\ periodData' = <<>>
    /\ totalStats' = None
    /\ avgCalories' = None
    /\ balanceNeto' = None
    /\ today' = None
    /\ streak' = 0
    /\ checkDate' = None
    /\ streakPc' = "idle"
    /\ UNCHANGED <<pageVars, evalVars, storeVars, calcVars>>

Next ==
    \/ saveWorkout
    \/ deleteWorkout
    \/ saveMeal
    \/ deleteMeal
    \/ Dashboard
    \/ setStatsPeriod
    \/ setSelectedDate
    \/ LeaveDashboard

Spec == Init /\ [][Next]_vars

----------------------------------------------------------------------------
(* Properties of isWorkoutOnDate, stated on calendar days *)

\* the calendar day a 'yyyy-MM-dd' string of the window names
DayOf(s) == CHOOSE d \in Days : DayStr(d) = s

Called == IsSet(result)
Outcome == Val(result)
TargetDay == LocalDay(Val(targetDate))
AnchorDay == DayOf(workout.date)
EndDay == DayOf(Val(workout.recurrenceEnd))
HasEnd == IsSet(workout.recurrenceEnd)

\* weekday number of a calendar day, 0 = Sunday; FirstDay is a Monday
WeekdayOf(d) == (1 + d - FirstDay) % 7

\* the workout repeats: flag set and a type other than 'none'
Recurs ==
    /\ workout.recurring = Some(TRUE)
    /\ workout.recurrenceType \notin {None, Some("none")}
HasType(ty) == workout.recurrenceType = Some(ty)
NotPastEnd == HasEnd => TargetDay <= EndDay

\* C1: a workout whose recurring flag is false or absent, or whose
\* recurrenceType is 'none' or absent, is on date d iff d is its own date,
\* whatever its interval, days and end fields are.
C1_NonRecurringOnlyOwnDate ==
    (Called /\ ~Recurs) => (Outcome = "true" <=> TargetDay = AnchorDay)

C1_Witness ==
    /\ Called /\ workout.recurring = Some(FALSE) /\ HasType("daily")
    /\ workout.recurrenceInterval = Some(1)
    /\ workout.recurrenceDays = Some(<<1, 3, 5>>)
    /\ HasEnd /\ AnchorDay < TargetDay /\ TargetDay < EndDay
    /\ Outcome = "false"

\* C2: a workout is always on its own date, for every combination of the
\* recurrence fields.
C2_OwnDateAlwaysMatches ==
    (Called /\ TargetDay = AnchorDay) => Outcome = "true"

C2_Witness ==
    /\ Called /\ TargetDay = AnchorDay /\ Outcome = "true"
    /\ workout.recurring = Some(TRUE) /\ HasType("weekly")
    /\ workout.recurrenceDays = Some(<<1, 3, 5>>)
    /\ WeekdayOf(AnchorDay) \notin {1, 3, 5}
    /\ workout.recurrenceInterval = None
    /\ HasEnd /\ EndDay < AnchorDay

\* C3: a daily recurring workout is on every date from its own date on when
\* it has no end, and on exactly the dates from its own date through its end
\* date when the end is on or after its own date.
C3_DailyFromAnchorThroughEnd ==
    (Called /\ Recurs /\ HasType("daily")) =>
        /\ ~HasEnd => (Outcome = "true" <=> TargetDay >= AnchorDay)
        /\ (HasEnd /\ EndDay >= AnchorDay) =>
               (Outcome = "true" <=> (AnchorDay <= TargetDay /\ TargetDay <= EndDay))

C3_Witness ==
    /\ Called /\ Recurs /\ HasType("daily")
    /\ HasEnd /\ AnchorDay < EndDay /\ TargetDay = EndDay
    /\ Outcome = "true"

\* C4: a weekly recurring workout, on a date after its own date and not
\* after its end, is on that date iff the date's weekday number is in
\* recurrenceDays (never, when recurrenceDays is empty or absent); anchored
\* on a Monday with days {1,3,5} it is on Mondays, Wednesdays and Fridays
\* from its own date on and on no other date.
C4_WeeklyByWeekday ==
    (Called /\ Recurs /\ HasType("weekly")) =>
        /\ (TargetDay > AnchorDay /\ NotPastEnd) =>
               (Outcome = "true" <=>
                    /\ IsSet(workout.recurrenceDays)
                    /\ includes(Val(workout.recurrenceDays), WeekdayOf(TargetDay)))
        /\ (workout.recurrenceDays = Some(<<1, 3, 5>>) /\ WeekdayOf(AnchorDay) = 1) =>
               /\ Outcome = "true" =>
                      (TargetDay >= AnchorDay /\ WeekdayOf(TargetDay) \in {1, 3, 5})
               /\ (~HasEnd /\ TargetDay >= AnchorDay /\ WeekdayOf(TargetDay) \in {1, 3, 5})
                      => Outcome = "true"

C4_Witness ==
    /\ Called /\ Recurs /\ HasType("weekly")
    /\ workout.recurrenceDays = Some(<<1, 3, 5>>)
    /\ WeekdayOf(AnchorDay) = 1 /\ WeekdayOf(TargetDay) = 5
    /\ TargetDay > AnchorDay /\ NotPastEnd
    /\ Outcome = "true"

\* C5: a custom recurring workout, on a date not after its end, is on that
\* date iff the whole number of days n from its own date to that date is
\* >= 0 and a multiple of recurrenceInterval; with the interval absent or
\* < 1 it is on no date but its own.
C5_CustomEveryInterval ==
    (Called /\ Recurs /\ HasType("custom")) =>
        LET n == TargetDay - AnchorDay
            i == workout.recurrenceInterval
        IN  /\ (IsSet(i) /\ Val(i) >= 1 /\ NotPastEnd) =>
                   (Outcome = "true" <=> (n >= 0 /\ n % Val(i) = 0))
            /\ ((~IsSet(i) \/ Val(i) < 1) /\ n # 0) => Outcome = "false"

\* the anchor is before and the target after the 23-hour night
C5_Witness ==
    /\ Called /\ Recurs /\ HasType("custom")
    /\ workout.recurrenceInterval = Some(2)
    /\ TargetDay - AnchorDay = 2 /\ NotPastEnd
    /\ parseISO(workout.date) < DstStart /\ Val(targetDate) > DstStart
    /\ Outcome = "true"

\* C6 as stated: with recurrenceEnd set, the workout is on no date after
\* recurrenceEnd.
C6_Original ==
    (Called /\ HasEnd /\ TargetDay > EndDay) => Outcome = "false"

\* C6, amended: with recurrenceEnd set, the workout is on no date after
\* recurrenceEnd other than its own date; the end date itself is eligible
\* (a daily workout anchored on or before its end is on the end date).
C6_NeverAfterEnd ==
    /\ (Called /\ HasEnd /\ TargetDay > EndDay /\ TargetDay # AnchorDay) =>
           Outcome = "false"
    /\ (Called /\ Recurs /\ HasType("daily") /\ HasEnd
               /\ AnchorDay <= EndDay /\ TargetDay = EndDay) =>
           Outcome = "true"

C6_Witness ==
    /\ Called /\ Recurs /\ HasType("daily") /\ HasEnd
    /\ AnchorDay < EndDay /\ TargetDay = EndDay + 1
    /\ Outcome = "false"

\* C7: no workout is on a date before its own date.
C7_NeverBeforeAnchor ==
    (Called /\ TargetDay < AnchorDay) => Outcome = "false"

C7_Witness ==
    /\ Called /\ Recurs /\ HasType("daily") /\ ~HasEnd
    /\ TargetDay = AnchorDay - 1
    /\ Outcome = "false"

\* a recurring workout whose rule cannot be evaluated
Malformed ==
    /\ workout.recurring = Some(TRUE)
    /\ \/ /\ HasType("custom")
          /\ ~IsSet(workout.recurrenceInterval) \/ Val(workout.recurrenceInterval) < 1
       \/ HasType("weekly") /\ workout.recurrenceDays \in {None, Some(<<>>)}
       \/ HasType("monthly")

\* C8: every call returns a boolean and none throws; a recurring workout
\* with a missing interval, an empty or absent weekday set or an unknown
\* recurrenceType is on no date but its own.
C8_Total ==
    Called =>
        /\ Outcome \in {"true", "false"}
        /\ (Malformed /\ TargetDay # AnchorDay) => Outcome = "false"

C8_Witness ==
    /\ Called /\ workout.recurring = Some(TRUE) /\ HasType("weekly")
    /\ workout.recurrenceDays = None
    /\ TargetDay > AnchorDay /\ ~HasEnd
    /\ Outcome = "false"

----------------------------------------------------------------------------
(* The streak walk of lines 377-386, one iteration at a time *)

\* the most iterations a walk is followed for
MaxWalk == 12

DailyOpenEnded ==
    [recurring |-> Some(TRUE), recurrenceType |-> Some("daily"), recurrenceInterval |-> None,
     recurrenceDays |-> None, recurrenceEnd |-> None]

\* no rule but the first has an end date
StreakRules == {NotRecurring, DailyOpenEnded, WeeklyOn(<<1, 3, 5>>), CustomEvery(2)}

StreakWorkoutRecords ==
    {[id |-> id, date |-> DayStr(d),
      exerciseType |-> "gym", duration |-> 30, caloriesBurned |-> 200,
      recurring |-> r.recurring, recurrenceType |-> r.recurrenceType,
      recurrenceInterval |-> r.recurrenceInterval,
      recurrenceDays |-> r.recurrenceDays, recurrenceEnd |-> r.recurrenceEnd] :
        <<id, d>> \in UNION {{id} \X WorkoutDays[id] : id \in WorkoutIds},
        r \in StreakRules}

\* the collections of at most two records with different ids, the record
\* with id first saved first
Collections(records, first) ==
    {<<>>} \cup {<<r>> : r \in records}
    \cup {<<r1, r2>> : r1 \in {r \in records : r.id = first},
                       r2 \in {r \in records : r.id # first}}

\* the Dashboard starts the walk at new Date() over what the store holds
InitStreak ==
    /\ workout = None
    /\ targetDate = None
    /\ result = None
    /\ workouts \in Collections(StreakWorkoutRecords, "w1")
    /\ meals \in Collections(MealRecords, "m1")
    /\ statsPeriod = None
    /\ now = None
    /\ periodDates = <<>>
    /\ periodData = <<>>
    /\ totalStats = None
    /\ avgCalories = None
    /\ balanceNeto = None
    /\ NoCalculation
    /\ NoPages
    /\ today \in {Some(t) : t \in RenderTimes}
    /\ streak = 0
    /\ checkDate = today
    /\ streakPc = "loop"

\* lines 383-385: the day has activity; count it and step one day back
StreakCount ==
    /\ streakPc = "loop"
    /\ streak < MaxWalk
    /\ hasActivity(workouts, meals, Val(checkDate))
    /\ streak' = streak + 1
    /\ checkDate' = Some(addDays(Val(checkDate), -1))
    /\ UNCHANGED <<pageVars, evalVars, storeVars, statsVars, calcVars, today, streakPc>>

\* line 383: the day has no activity; break
StreakBreak ==
    /\ streakPc = "loop"
    /\ ~hasActivity(workouts, meals, Val(checkDate))
    /\ streakPc' = "done"
    /\ UNCHANGED <<pageVars, evalVars, storeVars, statsVars, calcVars, today, streak, checkDate>>

NextStreak ==
    \/ StreakCount
    \/ StreakBreak

\* the loop is synchronous code: once entered it runs on
SpecStreak == InitStreak /\ [][NextStreak]_vars /\ WF_vars(NextStreak)

----------------------------------------------------------------------------
(* calculateDailyTargets and the average, called on their own *)

\* a number is Some(n); NaN is the empty option
NaN == None

\* the activity multipliers in thousandths
activityMultipliers ==
    [sedentary |-> 1200, light |-> 1375, moderate |-> 1550, active |-> 1725,
     very_active |-> 1900]

\* property names every object literal inherits from Object.prototype
ObjectPrototype ==
    {"constructor", "toString", "toLocaleString", "valueOf", "hasOwnProperty",
     "isPrototypeOf", "propertyIsEnumerable", "__proto__"}

\* the fallback multiplier in thousandths
DefaultMultiplier == 1550

\* activityMultipliers[profile.activityLevel] || 1.55: an own property gives
\* its number; an inherited property gives a function or object, which is
\* truthy and makes the product NaN; anything else gives undefined and 1.55
multiplierOf(activityLevel) ==
    IF activityLevel \in DOMAIN activityMultipliers
    THEN Some(activityMultipliers[activityLevel])
    ELSE IF activityLevel \in ObjectPrototype THEN NaN
    ELSE Some(DefaultMultiplier)

\* tenths of 2^-52 by which a multiplier exceeds the double its literal denotes
MultiplierDeficit(m) ==
    CASE m = 1200 -> 2
      [] m = 1375 -> 0
      [] m = 1550 -> 0 - 2
      [] m = 1725 -> 0 - 4
      [] m = 1900 -> 4

\* tenths of 2^-54 by which a percentage exceeds the double its literal denotes
PercentDeficit(pct) ==
    CASE pct = 25 -> 0
      [] pct = 30 -> 2
      [] pct = 35 -> 4
      [] pct = 45 -> 0 - 2

\* the smallest power of two, from p on, that is at least num / scale
RECURSIVE PowerOfTwoAtLeast(_, _, _)
PowerOfTwoAtLeast(p, num, scale) ==
    IF p * scale >= num THEN p ELSE PowerOfTwoAtLeast(2 * p, num, scale)

\* the double product a * k lies below the real product num / scale by more
\* than half a unit in the last place, a being the first factor in units for
\* which deficit counts the second factor's deficit in tenths of 2^-54
FallsBelow(a, deficit, num, scale) ==
    a * deficit > 10 * PowerOfTwoAtLeast(1, num, scale)

\* Math.round(x / d) for x a double product whose real value is num / scale:
\* a real value halfway between two integers is rounded down when the double
\* product fell below it, and as the real value is in every other case
MathRoundOfDouble(num, scale, d, below) ==
    LET exact == MathRoundDiv(num, d * scale)
        tie   == /\ (2 * num) % (d * scale) = 0
                 /\ ((2 * num) \div (d * scale)) % 2 = 1
    IN  IF tie /\ below THEN exact - 1 ELSE exact

\* lines 203-206: Math.round((calories * pct) / d), pct in hundredths
macro(calories, pct, d) ==
    MathRoundOfDouble(calories * pct, 100, d,
                      FallsBelow(calories, PercentDeficit(pct), calories * pct, 100))

\* lines 176-180: bmr in hundredths
bmrOf(p) ==
    IF p.sex = "male"
    THEN 1000 * p.weight + 625 * p.height - 500 * p.age + 500
    ELSE 1000 * p.weight + 625 * p.height - 500 * p.age - 16100

\* lines 188-189: the goal adjustment
goalAdjustment(goal) ==
    IF goal = "lose_fat" THEN 0 - 400
    ELSE IF goal = "gain_muscle" THEN 300
    ELSE 0

\* lines 194-200: proteinPct, carbsPct, fatPct in hundredths
macroPercents(goal) ==
    IF goal = "lose_fat" THEN [protein |-> 35, carbs |-> 35, fat |-> 30]
    ELSE IF goal = "gain_muscle" THEN [protein |-> 30, carbs |-> 45, fat |-> 25]
    ELSE [protein |-> 25, carbs |-> 45, fat |-> 30]

\* lines 186-191: Math.round(bmr * multiplier + adjustment), bmr in
\* hundredths, m in thousandths; adding the integer adjustment is exact
caloriesOf(bmr, m, g) ==
    MathRoundOfDouble(bmr * m + g * 100000, 100000, 1,
                      FallsBelow(bmr \div 25, MultiplierDeficit(m), bmr * m, 100000))

\* lines 174-208
calculateDailyTargets(p) ==
    LET m == multiplierOf(p.activityLevel)
    IN  IF m = NaN
        THEN [calories |-> NaN, protein |-> NaN, carbs |-> NaN, fat |-> NaN]
        ELSE LET calories == caloriesOf(bmrOf(p), Val(m), goalAdjustment(p.goal))
                 pct      == macroPercents(p.goal)
             IN  [calories |-> Some(calories),
                  protein  |-> Some(macro(calories, pct.protein, 4)),
                  carbs    |-> Some(macro(calories, pct.carbs, 4)),
                  fat      |-> Some(macro(calories, pct.fat, 9))]

\* largest period total and longest period the average is called with
MaxTotal == 9
MaxPeriodLength == 4

Sexes == {"male", "female"}
Ages == {25, 30}
Weights == {70, 80}
Heights == {180}
ActivityLevels ==
    {"sedentary", "light", "moderate", "active", "very_active", "extreme",
     "constructor"}
Goals == {"lose_fat", "gain_muscle", "maintain", "recomposition"}

ProfileInputs ==
    [sex : Sexes, age : Ages, weight : Weights, height : Heights,
     activityLevel : ActivityLevels, goal : Goals]

AverageInputs == [total : 0..MaxTotal, days : 0..MaxPeriodLength]

\* one call is about to be made: of calculateDailyTargets with a profile, or
\* of the average with a total and a number of days
InitCalc ==
    /\ workout = None
    /\ targetDate = None
    /\ result = None
    /\ workouts = <<>>
    /\ meals = <<>>
    /\ NoDashboard
    /\ NoPages
    /\ targets = None
    /\ macroSums = None
    /\ \/ profile \in {Some(p) : p \in ProfileInputs} /\ avgArgs = None
       \/ profile = None /\ avgArgs \in {Some(a) : a \in AverageInputs}

\* the call calculateDailyTargets(profile)
CalculateTargets ==
    /\ IsSet(profile)
    /\ targets = None
    /\ targets' = Some(calculateDailyTargets(Val(profile)))
    /\ UNCHANGED <<pageVars, evalVars, storeVars, statsVars, streakVars, profile, avgArgs, macroSums>>

\* line 428 evaluated for a total and a number of days
AverageCalories ==
    /\ IsSet(avgArgs)
    /\ avgCalories = None
    /\ avgCalories' = Some(avgCaloriesOf(Val(avgArgs).total, Val(avgArgs).days))
    /\ UNCHANGED <<pageVars, evalVars, storeVars, streakVars, calcVars,
                   statsPeriod, now, periodDates, periodData, totalStats, balanceNeto>>

NextCalc ==
    \/ CalculateTargets
    \/ AverageCalories

SpecCalc == InitCalc /\ [][NextCalc]_vars

----------------------------------------------------------------------------
(* The sums of lines 309-312 over meal totals that are not whole numbers.
   The Nutrition form reads every food value with parseFloat and stores the
   sums unrounded. A double below 8 that is a multiple of 2^-56 is the pair
   <<hi, lo>> standing for (hi * Limb + lo) * 2^-56. *)

Limb == 268435456

\* the hi of 2^53 * 2^-56: a significand has 53 bits
SignificandTop == 33554432

\* parseFloat of the decimal with the given number of tenths
parseFloat(tenths) ==
    CASE tenths = 1  -> <<26843545, 161061274>>
      [] tenths = 2  -> <<53687091, 53687092>>
      [] tenths = 3  -> <<80530636, 214748364>>
      [] tenths = 5  -> <<134217728, 0>>
      [] tenths = 10 -> <<268435456, 0>>
      [] tenths = 15 -> <<402653184, 0>>
      [] tenths = 20 -> <<536870912, 0>>

\* the number of bits by which a sum with this hi exceeds 53 bits
RECURSIVE ExcessBits(_)
ExcessBits(hi) ==
    IF hi < SignificandTop THEN 0 ELSE 1 + ExcessBits(hi \div 2)

RECURSIVE PowerOfTwo(_)
PowerOfTwo(n) == IF n = 0 THEN 1 ELSE 2 * PowerOfTwo(n - 1)

\* a + b on doubles: the exact sum rounded to 53 significant bits, a tie to
\* the even significand
DoubleAdd(a, b) ==
    LET lo   == (a[2] + b[2]) % Limb
        hi   == a[1] + b[1] + (a[2] + b[2]) \div Limb
        P    == PowerOfTwo(ExcessBits(hi))
        r    == lo % P
        up   == \/ 2 * r > P
                \/ 2 * r = P /\ (lo \div P) % 2 = 1
        lo2  == lo - r + (IF up THEN P ELSE 0)
    IN  <<hi + lo2 \div Limb, lo2 % Limb>>

\* the reducer written (s, m) => m[field]
reduceDoubles_LastWins(records, field, s) ==
    IF records = <<>> THEN s ELSE records[Len(records)][field]

\* lines 309-312: records.reduce((s, m) => s + m[field], s)
RECURSIVE reduceDoubles(_, _, _)
reduceDoubles(records, field, s) ==
    IF records = <<>> THEN s
    ELSE reduceDoubles(Tail(records), field, DoubleAdd(s, Head(records)[field]))

\* lines 310-312 of the entry of a day all the meals are dated
macroSumsOf(dayMeals) ==
    [protein |-> reduceDoubles(dayMeals, "totalProtein", <<0, 0>>),
     carbs   |-> reduceDoubles(dayMeals, "totalCarbs", <<0, 0>>),
     fat     |-> reduceDoubles(dayMeals, "totalFat", <<0, 0>>)]

\* the most meals on the day
MaxMeals == 3

\* the totals, in tenths of a gram, the meal form was filled in with
MacroTenths ==
    [a |-> [totalProtein |-> 1,  totalCarbs |-> 10, totalFat |-> 5],
     b |-> [totalProtein |-> 2,  totalCarbs |-> 20, totalFat |-> 5],
     c |-> [totalProtein |-> 3,  totalCarbs |-> 10, totalFat |-> 15],
     d |-> [totalProtein |-> 10, totalCarbs |-> 20, totalFat |-> 20],
     e |-> [totalProtein |-> 20, totalCarbs |-> 10, totalFat |-> 10],
     f |-> [totalProtein |-> 10, totalCarbs |-> 10, totalFat |-> 20]]

DecimalMeals ==
    {[id |-> id, date |-> DayStr(FirstDay), mealType |-> "lunch",
      totalProtein |-> parseFloat(MacroTenths[id].totalProtein),
      totalCarbs   |-> parseFloat(MacroTenths[id].totalCarbs),
      totalFat     |-> parseFloat(MacroTenths[id].totalFat)] :
        id \in DOMAIN MacroTenths}

\* the lists of n different records
RECURSIVE ListsOf(_, _)
ListsOf(records, n) ==
    IF n = 0 THEN {<<>>}
    ELSE {Append(p[1], p[2]) :
            p \in {p \in ListsOf(records, n - 1) \X records :
                      \A i \in 1..(n - 1) : p[1][i] # p[2]}}

\* the store holds up to MaxMeals meals of one day in some order
InitMacros ==
    /\ workout = None
    /\ targetDate = None
    /\ result = None
    /\ workouts = <<>>
    /\ meals \in UNION {ListsOf(DecimalMeals, n) : n \in 1..MaxMeals}
    /\ NoDashboard
    /\ NoCalculation
    /\ NoPages

\* aggregateForPeriod reaches the day of the meals
SumMacros ==
    /\ macroSums = None
    /\ macroSums' = Some(macroSumsOf(meals))
    /\ UNCHANGED <<pageVars, evalVars, storeVars, statsVars, streakVars, profile, targets, avgArgs>>

NextMacros == SumMacros

SpecMacros == InitMacros /\ [][NextMacros]_vars

----------------------------------------------------------------------------
(* Properties of aggregateForPeriod *)

\* sum of a field over the records at the indices S
RECURSIVE SumOver(_, _, _)
SumOver(S, records, field) ==
    IF S = {} THEN 0
    ELSE LET j == CHOOSE j \in S : TRUE
         IN  records[j][field] + SumOver(S \ {j}, records, field)

Rendered == IsSet(statsPeriod)

\* indices of the stored workouts that are on the date of instant day
ActiveOn(day) ==
    {j \in DOMAIN workouts : isWorkoutOnDate(workouts[j], day) = "true"}

\* indices of the stored meals dated the calendar day of instant day
MealsOn(day) ==
    {j \in DOMAIN meals : DayOf(meals[j].date) = LocalDay(day)}

\* how often record r occurs in the list
Occurrences(list, r) == Cardinality({k \in DOMAIN list : list[k] = r})

\* C9: in every per-day entry, caloriesOut, workoutMinutes and workoutCount
\* are the sum of caloriesBurned, the sum of duration and the number of
\* exactly the stored workouts that isWorkoutOnDate puts on that day, and
\* the entry's workouts list holds each of them once and nothing else.
C9_WorkoutSumsPerDay ==
    Rendered =>
        /\ DOMAIN periodData = DOMAIN periodDates
        /\ \A i \in DOMAIN periodData :
             LET e == periodData[i]
                 A == ActiveOn(periodDates[i])
             IN  /\ e.caloriesOut = SumOver(A, workouts, "caloriesBurned")
                 /\ e.workoutMinutes = SumOver(A, workouts, "duration")
                 /\ e.workoutCount = Cardinality(A)
                 /\ Len(e.workouts) = Cardinality(A)
                 /\ \A j \in DOMAIN workouts :
                      Occurrences(e.workouts, workouts[j]) = IF j \in A THEN 1 ELSE 0

\* one recurring record counted on two days of the period, neither its own
\* date, next to a second record on one of them
C9_Witness ==
    /\ Rendered
    /\ \E j \in DOMAIN workouts, i, k \in DOMAIN periodData :
         /\ i # k
         /\ workouts[j].recurring = Some(TRUE)
         /\ workouts[j].date # format(periodDates[i])
         /\ workouts[j].date # format(periodDates[k])
         /\ Occurrences(periodData[i].workouts, workouts[j]) = 1
         /\ Occurrences(periodData[k].workouts, workouts[j]) = 1
         /\ periodData[i].workoutCount = 2
         /\ periodData[i].caloriesOut = 500

\* C10: in every per-day entry, caloriesIn, protein, carbs and fat are the
\* sums of totalCalories, totalProtein, totalCarbs and totalFat over exactly
\* the stored meals dated that day; workouts add nothing to them.
C10_MealSumsPerDay ==
    Rendered =>
        \A i \in DOMAIN periodData :
            LET e == periodData[i]
                M == MealsOn(periodDates[i])
            IN  /\ e.caloriesIn = SumOver(M, meals, "totalCalories")
                /\ e.protein = SumOver(M, meals, "totalProtein")
                /\ e.carbs = SumOver(M, meals, "totalCarbs")
                /\ e.fat = SumOver(M, meals, "totalFat")

\* both meals on one day of the period, and a later day with a workout and
\* no meal
C10_Witness ==
    /\ Rendered
    /\ \E i, k \in DOMAIN periodData :
         /\ i < k
         /\ periodData[i].caloriesIn = 1200
         /\ periodData[i].protein = 70
         /\ periodData[k].caloriesIn = 0
         /\ periodData[k].fat = 0
         /\ periodData[k].caloriesOut > 0

----------------------------------------------------------------------------
(* Properties of the period statistics *)

Totals == Val(totalStats).totals

Breakdown == Val(totalStats).exerciseBreakdown

AllDays == DOMAIN periodData

TotalFields ==
    {"caloriesIn", "caloriesOut", "protein", "carbs", "fat",
     "workoutMinutes", "workoutCount"}

\* a week in which every day has one meal of 2000 kcal and a daily workout
\* burning 300 kcal
ExampleWeek ==
    LET dates == getPeriodDates("week", LocalTime(FirstDay + 2, 10))
        daily == [id |-> "w", date |-> DayStr(FirstDay),
                  exerciseType |-> "gym", duration |-> 30, caloriesBurned |-> 300,
                  recurring |-> Some(TRUE), recurrenceType |-> Some("daily"),
                  recurrenceInterval |-> None, recurrenceDays |-> None,
                  recurrenceEnd |-> None]
        meal(i) == [id |-> i, date |-> format(dates[i]), mealType |-> "lunch",
                    totalCalories |-> 2000, totalProtein |-> 100,
                    totalCarbs |-> 250, totalFat |-> 60]
    IN  aggregateForPeriod(dates, <<daily>>, [i \in 1..Len(dates) |-> meal(i)])

\* C12: each period total is the sum of the per-day field over the days of
\* the period; the totals of an empty period are all 0; seven days of 2000
\* consumed and 300 burned total 14000 and 2100 with 1700 balance per day.
C12_TotalsAreSums ==
    /\ Rendered =>
         \A f \in TotalFields : Totals[f] = SumOver(AllDays, periodData, f)
    /\ \A f \in TotalFields : totalStatsOf(<<>>).totals[f] = 0
    /\ totalStatsOf(<<>>).exerciseBreakdown = <<>>
    /\ Len(ExampleWeek) = 7
    /\ \A i \in DOMAIN ExampleWeek :
         /\ ExampleWeek[i].caloriesIn = 2000
         /\ ExampleWeek[i].caloriesOut = 300
         /\ ExampleWeek[i].balance = 1700
    /\ totalStatsOf(ExampleWeek).totals.caloriesIn = 14000
    /\ totalStatsOf(ExampleWeek).totals.caloriesOut = 2100
    /\ totalStatsOf(ExampleWeek).totals.workoutCount = 7

\* a period of several days with meals on two of them, workouts on three or
\* more, two workouts on one day, and every total positive
C12_Witness ==
    /\ Rendered
    /\ Len(periodData) >= 7
    /\ \E i, k \in AllDays :
         /\ i # k
         /\ periodData[i].caloriesIn > 0
         /\ periodData[k].caloriesIn > 0
         /\ periodData[k].workoutCount = 2
    /\ Cardinality({i \in AllDays : periodData[i].workoutCount > 0}) >= 3
    /\ \A f \in TotalFields : Totals[f] > 0
    /\ Totals.caloriesIn = 1200

\* the stored workouts of one exercise type that are on day i of the period
MatchedOfType(i, type) ==
    {j \in ActiveOn(periodDates[i]) : workouts[j].exerciseType = type}

\* the exercise types that occur in a matched workout of the period
MatchedTypes ==
    {workouts[j].exerciseType :
        j \in UNION {ActiveOn(periodDates[i]) : i \in AllDays}}

\* per day of the period, the minutes and calories of one exercise type
PerDayOfType(type) ==
    [i \in AllDays |->
        [minutes  |-> SumOver(MatchedOfType(i, type), workouts, "duration"),
         calories |-> SumOver(MatchedOfType(i, type), workouts, "caloriesBurned")]]

\* C13: the exercise breakdown has exactly one entry for each exercise type
\* of a matched workout of the period and none for another type; its minutes
\* and calories are the sums of duration and caloriesBurned over all pairs of
\* a day and a workout of that type matched on it.
C13_BreakdownByType ==
    Rendered =>
        /\ \A type \in MatchedTypes :
             Cardinality({k \in DOMAIN Breakdown : Breakdown[k].type = type}) = 1
        /\ \A k \in DOMAIN Breakdown :
             /\ Breakdown[k].type \in MatchedTypes
             /\ Breakdown[k].minutes =
                  SumOver(AllDays, PerDayOfType(Breakdown[k].type), "minutes")
             /\ Breakdown[k].calories =
                  SumOver(AllDays, PerDayOfType(Breakdown[k].type), "calories")

\* two stored workouts of one exercise type in one entry of the breakdown,
\* both matched on one day and one of them on another day too
C13_Witness ==
    /\ Rendered
    /\ Len(workouts) = 2
    /\ Len(Breakdown) = 1
    /\ Breakdown[1].type = "gym"
    /\ Breakdown[1].label = "Gimnasio"
    /\ Breakdown[1].minutes > 90
    /\ \E i, k \in AllDays :
         /\ i # k
         /\ Cardinality(MatchedOfType(i, "gym")) = 2
         /\ Cardinality(MatchedOfType(k, "gym")) = 1

\* the total and the number of days the displayed average was computed from
AverageOf ==
    IF IsSet(avgArgs) THEN Val(avgArgs)
    ELSE [total |-> Totals.caloriesIn, days |-> Len(periodDates)]

\* C14: the average is the total divided by the number of days rounded to
\* the nearest integer, a half rounded up; for zero days it is 0.
C14_AverageHalfUp ==
    IsSet(avgCalories) =>
        LET a == Val(avgCalories)
            total == AverageOf.total
            n == AverageOf.days
        IN  IF n = 0 THEN a = 0
            ELSE /\ 2 * a * n - n <= 2 * total
                 /\ 2 * total < 2 * a * n + n

\* an average that is exactly a half above an integer before rounding
C14_Witness ==
    /\ IsSet(avgArgs) /\ IsSet(avgCalories)
    /\ Val(avgArgs).days > 1
    /\ 2 * Val(avgArgs).total = (2 * Val(avgCalories) - 1) * Val(avgArgs).days
    /\ Val(avgCalories) >= 2

----------------------------------------------------------------------------
(* Properties of calculateDailyTargets *)

TargetsCalled == IsSet(profile) /\ IsSet(targets)

\* the multiplier, in thousandths, that goes with an activity level
StatedMultiplier(activityLevel) ==
    CASE activityLevel = "sedentary" -> 1200
      [] activityLevel = "light" -> 1375
      [] activityLevel = "moderate" -> 1550
      [] activityLevel = "active" -> 1725
      [] activityLevel = "very_active" -> 1900
      [] OTHER -> 1550

\* BMR x m + g in units of 1/100000 kcal
StatedEnergy ==
    LET p == Val(profile)
        bmr == 1000 * p.weight + 625 * p.height - 500 * p.age
               + (IF p.sex = "male" THEN 500 ELSE 0 - 16100)
        g == CASE p.goal = "lose_fat" -> 0 - 400
               [] p.goal = "gain_muscle" -> 300
               [] OTHER -> 0
    IN  bmr * StatedMultiplier(p.activityLevel) + g * 100000

\* c is num / den rounded to the nearest integer, a half rounded up
IsRounded(c, num, den) ==
    /\ 2 * c * den - den <= 2 * num
    /\ 2 * num < 2 * c * den + den

\* C18: calories is round(BMR x m + g) with BMR from the Mifflin-St Jeor
\* formula of the sex, m the multiplier of the activity level or 1.55 for any
\* unrecognized level, and g -400, +300 or 0 by goal.
C18_Calories ==
    TargetsCalled =>
        /\ Val(targets).calories # NaN
        /\ IsRounded(Val(Val(targets).calories), StatedEnergy, 100000)

\* the percentages, in hundredths, that go with a goal
StatedPercents ==
    CASE Val(profile).goal = "lose_fat" -> [protein |-> 35, carbs |-> 35, fat |-> 30]
      [] Val(profile).goal = "gain_muscle" -> [protein |-> 30, carbs |-> 45, fat |-> 25]
      [] OTHER -> [protein |-> 25, carbs |-> 45, fat |-> 30]

\* C19: protein, carbs and fat are round(calories x p / 4),
\* round(calories x c / 4) and round(calories x f / 9) of the rounded calories,
\* with the percentages of the goal.
C19_Macros ==
    (TargetsCalled /\ Val(targets).calories # NaN) =>
        LET t == Val(targets)
            c == Val(t.calories)
        IN  /\ IsRounded(Val(t.protein), c * StatedPercents.protein, 400)
            /\ IsRounded(Val(t.carbs), c * StatedPercents.carbs, 400)
            /\ IsRounded(Val(t.fat), c * StatedPercents.fat, 900)

----------------------------------------------------------------------------
(* Properties of the streak *)

\* the calendar day d has a stored workout on it or a stored meal dated it
ActiveDay(d) ==
    \/ ActiveOn(LocalMidnight(d)) # {}
    \/ MealsOn(LocalMidnight(d)) # {}

Today == LocalDay(Val(today))

\* C15: the streak is the largest k such that today and the k - 1 days
\* before it all have a workout on them or a meal dated them; the walk stops
\* at the first inactive day, so the streak is 0 when today is inactive.
C15_StreakIsRunLength ==
    (Rendered /\ streakPc = "done") =>
        /\ \A i \in 0..(streak - 1) : ActiveDay(Today - i)
        /\ ~ActiveDay(Today - streak)
        /\ LocalDay(Val(checkDate)) = Today - streak

\* activity on today, the day before (a meal only) and the day before that,
\* none on the fourth day back, and activity again before that
C15_Witness ==
    /\ Rendered
    /\ streak = 3
    /\ ActiveOn(LocalMidnight(Today - 1)) = {}
    /\ MealsOn(LocalMidnight(Today - 1)) # {}
    /\ ActiveOn(LocalMidnight(Today - 2)) # {}
    /\ ~ActiveDay(Today - 3)
    /\ ActiveDay(Today - 4)

\* C16: the streak walk ends, whatever finite collection of workouts and
\* meals it runs over, open-ended recurring workouts included.
C16_WalkTerminates == <>(streakPc = "done")

\* a walk that ended over an open-ended daily workout and an open-ended
\* weekly one, after counting several days
C16_Witness ==
    /\ streakPc = "done"
    /\ streak >= 6
    /\ \E i, j \in DOMAIN workouts :
         /\ workouts[i].recurrenceType = Some("daily")
         /\ workouts[i].recurrenceEnd = None
         /\ workouts[j].recurrenceType = Some("weekly")
         /\ workouts[j].recurrenceEnd = None

----------------------------------------------------------------------------
(* Properties of getPeriodDates *)

\* the calendar day of the i-th period date
PeriodDay(i) == LocalDay(periodDates[i])

\* the calendar day the period dates were computed for
RefDay == LocalDay(Val(now))

\* year and month of a calendar day
MonthOf(d) == <<CivilFromDays(d)[1], CivilFromDays(d)[2]>>

\* C17: the period dates are consecutive calendar days in ascending order
\* and contain the reference date: one date for 'day', seven from the Monday
\* on or before the reference date for 'week', and the days of the reference
\* date's month from the first to the last for 'month'; the per-day entries
\* are one per period date in the same order.
C17_PeriodDates ==
    Rendered =>
        /\ \A i \in 1..(Len(periodDates) - 1) : PeriodDay(i + 1) = PeriodDay(i) + 1
        /\ \E i \in DOMAIN periodDates : PeriodDay(i) = RefDay
        /\ Val(statsPeriod) = "day" => Len(periodDates) = 1
        /\ Val(statsPeriod) = "week" =>
             /\ Len(periodDates) = 7
             /\ WeekdayOf(PeriodDay(1)) = 1
             /\ PeriodDay(1) <= RefDay
        /\ Val(statsPeriod) = "month" =>
             /\ \A i \in DOMAIN periodDates : MonthOf(PeriodDay(i)) = MonthOf(RefDay)
             /\ MonthOf(PeriodDay(1) - 1) # MonthOf(RefDay)
             /\ MonthOf(PeriodDay(Len(periodDates)) + 1) # MonthOf(RefDay)
        /\ Len(periodData) = Len(periodDates)
        /\ \A i \in DOMAIN periodDates : periodData[i].date = periodDates[i]

\* the month of a reference date that is its last day, the day the clocks
\* change, late in the evening
C17_Witness ==
    /\ Rendered
    /\ Val(statsPeriod) = "month"
    /\ Len(periodDates) = 31
    /\ PeriodDay(31) = RefDay
    /\ RefDay = LocalDay(DstStart)
    /\ LocalHour(Val(now)) = 23

----------------------------------------------------------------------------
(* Properties of the sums under reordering *)

\* the lists that hold the records of list in another order or the same
Reorderings(list) ==
    {[i \in DOMAIN list |-> list[q[i]]] :
        q \in {q \in [DOMAIN list -> DOMAIN list] :
                  \A i, j \in DOMAIN list : i # j => q[i] # q[j]}}

\* the double is a whole number
IsWhole(x) == x[2] = 0 /\ x[1] % Limb = 0

WholeTotals ==
    \A i \in DOMAIN meals :
        /\ IsWhole(meals[i].totalProtein)
        /\ IsWhole(meals[i].totalCarbs)
        /\ IsWhole(meals[i].totalFat)

----------------------------------------------------------------------------
(* The arguments of the core functions as objects the caller keeps: Date
   objects are cells of a heap, arrays and records are only read *)

\* const target = targetDate: the argument itself under another name
newDate_SameObject(heap, ref) == [ref |-> ref, heap |-> heap]

\* recurrence.ts line 33: new Date(targetDate) is a new object with the
\* time of the argument
newDate(heap, ref) ==
    [ref |-> "target", heap |-> ("target" :> heap[ref]) @@ heap]

\* recurrence.ts line 34: target.setHours(0, 0, 0, 0) writes the object
setHours(heap, ref) == [heap EXCEPT ![ref] = setHoursZero(@)]

\* the call reaches lines 31-34 of the 'custom' case
normalises(w, t) ==
    /\ ~ExactMatch(w, format(t))
    /\ RecurrenceApplies(w, format(t))
    /\ ~PastEnd(w, format(t))
    /\ Val(w.recurrenceType) = "custom"
    /\ TruthyNum(w.recurrenceInterval)
    /\ Val(w.recurrenceInterval) >= 1

\* the time of the caller's Date object after isWorkoutOnDate(w, targetDate)
targetDateAfter(w, t) ==
    LET target == newDate(("targetDate" :> t), "targetDate")
    IN  IF normalises(w, t)
        THEN setHours(target.heap, target.ref)["targetDate"]
        ELSE t

\* index.ts line 304: the day after workouts.filter has passed it to
\* isWorkoutOnDate with the first n workouts
RECURSIVE dayAfterFilter(_, _, _)
dayAfterFilter(ws, day, n) ==
    IF n = 0 THEN day
    ELSE targetDateAfter(ws[n], dayAfterFilter(ws, day, n - 1))

\* the caller holds a Date, a period of dates and the two collections
InitFrame ==
    /\ workout = None
    /\ result = None
    /\ workouts \in Collections(StreakWorkoutRecords, "w1")
    /\ meals \in Collections(MealRecords, "m1")
    /\ \E p \in StatsPeriods, t \in RenderTimes :
         /\ targetDate = Some(t)
         /\ statsPeriod = Some(p)
         /\ now = Some(t)
         /\ periodDates = getPeriodDates(p, t)
    /\ periodData = <<>>
    /\ totalStats = None
    /\ avgCalories = None
    /\ balanceNeto = None
    /\ today = None
    /\ streak = 0
    /\ checkDate = None
    /\ streakPc = "idle"
    /\ NoCalculation
    /\ NoPages

\* isWorkoutOnDate(workouts[i], targetDate)
CallIsWorkoutOnDate ==
    \E i \in DOMAIN workouts :
        /\ result' = Some(isWorkoutOnDate(workouts[i], Val(targetDate)))
        /\ targetDate' = Some(targetDateAfter(workouts[i], Val(targetDate)))
        /\ UNCHANGED <<pageVars, workout, storeVars, statsVars, streakVars, calcVars>>

\* aggregateForPeriod(periodDates, workouts, meals) and the totals of its
\* result; map, filter and reduce return new arrays and write nothing
CallAggregate ==
    /\ periodData' = aggregateForPeriod(periodDates, workouts, meals)
    /\ periodDates' = [i \in 1..Len(periodDates) |->
                          dayAfterFilter(workouts, periodDates[i], Len(workouts))]
    /\ totalStats' = Some(totalStatsOf(periodData'))
    /\ UNCHANGED <<pageVars, evalVars, storeVars, statsPeriod, now, avgCalories,
                   balanceNeto, streakVars, calcVars>>

\* the streak walk from its own new Date(); checkDate is rebound to the
\* new object addDays returns
CallStreakWalk ==
    LET walk == streakWalk(workouts, meals, Val(now), 0)
    IN  /\ today' = now
        /\ streak' = walk.streak
        /\ checkDate' = Some(dayAfterFilter(workouts, walk.checkDate,
                                            Len(workouts)))
        /\ streakPc' = "done"
        /\ UNCHANGED <<pageVars, evalVars, storeVars, statsVars, calcVars>>

NextFrame ==
    \/ CallIsWorkoutOnDate
    \/ CallAggregate
    \/ CallStreakWalk

SpecFrame == InitFrame /\ [][NextFrame]_vars

----------------------------------------------------------------------------
(* Frame of the core functions *)

\* C21: isWorkoutOnDate, aggregateForPeriod, the period totals and the
\* streak walk leave the workout collection, the meal collection, their
\* records, the passed target date and the passed period dates as they were
\* before the call.
C21_InputsUnchanged ==
    [][(CallIsWorkoutOnDate \/ CallAggregate \/ CallStreakWalk) =>
          /\ workouts' = workouts
          /\ meals' = meals
          /\ targetDate' = targetDate
          /\ periodDates' = periodDates]_vars

\* all three have run over a custom-recurring workout that matches the
\* passed date through lines 31-34, the date being an evening and the
\* period that one date
C21_Witness ==
    /\ result = Some("true")
    /\ IsSet(totalStats)
    /\ streakPc = "done"
    /\ streak > 0
    /\ statsPeriod = Some("day")
    /\ LocalHour(Val(targetDate)) = 23
    /\ periodData[1].workoutCount > 0
    /\ \E i \in DOMAIN workouts : normalises(workouts[i], Val(targetDate))

----------------------------------------------------------------------------
(* The fetch functions of the remote store (supabase).  A query resolves to
   { data, error }; null is the empty option. *)

\* a ?? b
Coalesce(o, d) == IF IsSet(o) THEN Val(o) ELSE d

\* what a function call did: returned a value or threw
Returned(v) == [outcome |-> "returned", value |-> v]
Thrown(message) == [outcome |-> "thrown", value |-> message]

\* part_001 lines 60-74: one row of 'workouts' as a Workout
mapWorkout(w) ==
    [id |-> w.id, date |-> w.date,
     time |-> Coalesce(w.time, ""),
     exerciseType |-> Coalesce(w.exercise_type, "other"),
     duration |-> Coalesce(w.duration, 0),
     intensity |-> Coalesce(w.intensity, "medium"),
     caloriesBurned |-> Coalesce(w.calories_burned, 0),
     notes |-> Coalesce(w.notes, ""),
     recurring |-> Some(Coalesce(w.recurring, FALSE)),
     recurrenceType |-> w.recurrence_type,
     recurrenceInterval |-> w.recurrence_interval,
     recurrenceDays |-> w.recurrence_days,
     recurrenceEnd |-> w.recurrence_end]

\* getWorkouts rethrowing the error as saveWorkout does
getWorkouts_Throwing(res) ==
    IF IsSet(res.error) THEN Thrown(Val(res.error))
    ELSE Returned([i \in 1..Len(Coalesce(res.data, <<>>)) |->
                      mapWorkout(Coalesce(res.data, <<>>)[i])])

\* part_001 lines 48-75: getWorkouts after the query has resolved to res
getWorkouts(res) ==
    IF IsSet(res.error) THEN Returned(<<>>)
    ELSE Returned([i \in 1..Len(Coalesce(res.data, <<>>)) |->
                      mapWorkout(Coalesce(res.data, <<>>)[i])])

\* part_001 lines 125-137: one row of 'meals' as a Meal
mapMeal(m) ==
    [id |-> m.id, date |-> m.date,
     time |-> Coalesce(m.time, ""),
     mealType |-> Coalesce(m.meal_type, "lunch"),
     foods |-> Coalesce(m.foods, <<>>),
     totalCalories |-> Coalesce(m.total_calories, 0),
     totalProtein |-> Coalesce(m.total_protein, 0),
     totalCarbs |-> Coalesce(m.total_carbs, 0),
     totalFat |-> Coalesce(m.total_fat, 0),
     notes |-> m.notes,
     imageUrl |-> m.image_url]

\* part_001 lines 113-138: getMeals after the query has resolved to res
getMeals(res) ==
    IF IsSet(res.error) THEN Returned(<<>>)
    ELSE Returned([i \in 1..Len(Coalesce(res.data, <<>>)) |->
                      mapMeal(Coalesce(res.data, <<>>)[i])])

\* part_001 lines 6-27: getProfile after the query has resolved to res; null
\* is None.  Without an error .single() has found exactly one row.
getProfile(res) ==
    IF IsSet(res.error) THEN Returned(None)
    ELSE LET data == Val(res.data)
         IN  Returned(Some(
                 [age |-> Coalesce(data.age, 25),
                  weight |-> Coalesce(data.weight, 70),
                  height |-> Coalesce(data.height, 170),
                  sex |-> Coalesce(data.sex, "male"),
                  activityLevel |-> Coalesce(data.activity_level, "moderate"),
                  goal |-> Coalesce(data.goal, "maintain"),
                  onboardingComplete |-> Coalesce(data.onboarding_complete, FALSE)]))

\* rows of the table 'workouts': one with every column set, one with the
\* nullable columns null
WorkoutRows ==
    {[id |-> id, date |-> DayStr(FirstDay),
      time |-> Some("18:00"), exercise_type |-> Some("gym"),
      duration |-> Some(30), intensity |-> Some("high"),
      calories_burned |-> Some(200), notes |-> Some("legs"),
      recurring |-> Some(TRUE), recurrence_type |-> Some("daily"),
      recurrence_interval |-> None, recurrence_days |-> None,
      recurrence_end |-> Some(DayStr(FirstDay + 6))] : id \in WorkoutIds}
    \cup
    {[id |-> id, date |-> DayStr(FirstDay + 5),
      time |-> None, exercise_type |-> None, duration |-> None,
      intensity |-> None, calories_burned |-> None, notes |-> None,
      recurring |-> None, recurrence_type |-> None,
      recurrence_interval |-> None, recurrence_days |-> None,
      recurrence_end |-> None] : id \in WorkoutIds}

\* rows of the table 'meals'
MealRows ==
    {[id |-> id, date |-> DayStr(FirstDay + 2),
      time |-> Some("14:00"), meal_type |-> Some("dinner"),
      foods |-> Some(<<[name |-> "rice", calories |-> 500, protein |-> 30,
                        carbs |-> 60, fat |-> 15]>>),
      total_calories |-> Some(500), total_protein |-> Some(30),
      total_carbs |-> Some(60), total_fat |-> Some(15),
      notes |-> Some("home"), image_url |-> None] : id \in MealIds}
    \cup
    {[id |-> id, date |-> DayStr(FirstDay + 5),
      time |-> None, meal_type |-> None, foods |-> None,
      total_calories |-> None, total_protein |-> None,
      total_carbs |-> None, total_fat |-> None,
      notes |-> None, image_url |-> None] : id \in MealIds}

\* rows of the table 'profiles'
ProfileRows ==
    {[age |-> Some(30), weight |-> Some(80), height |-> Some(180),
      sex |-> Some("female"), activity_level |-> Some("active"),
      goal |-> Some("lose_fat"), onboarding_complete |-> Some(done)] :
        done \in BOOLEAN}
    \cup
    {[age |-> None, weight |-> None, height |-> None, sex |-> None,
      activity_level |-> None, goal |-> None, onboarding_complete |-> None]}

\* the messages of the errors the client reports: the network is down, the
\* request is refused, .single() finds no row
ErrorMessages == {"Failed to fetch", "JWT expired", "no rows"}

\* the lists of at most two rows
RowLists(rows) ==
    {<<>>} \cup {<<r>> : r \in rows} \cup {<<r1, r2>> : r1, r2 \in rows}

\* what a select of many rows resolves to: rows, null without an error, or
\* an error with data null
SelectResponses(table, rows) ==
    {[table |-> table, data |-> Some(list), error |-> None] :
        list \in RowLists(rows)}
    \cup {[table |-> table, data |-> None, error |-> None]}
    \cup {[table |-> table, data |-> None, error |-> Some(e)] :
            e \in ErrorMessages}

\* what .single() resolves to: the row, or an error with data null
SingleResponses(table, rows) ==
    {[table |-> table, data |-> Some(r), error |-> None] : r \in rows}
    \cup {[table |-> table, data |-> None, error |-> Some(e)] :
            e \in ErrorMessages}

\* a query has resolved and the function awaiting it goes on
InitFetch ==
    /\ workout = None
    /\ targetDate = None
    /\ result = None
    /\ workouts = <<>>
    /\ meals = <<>>
    /\ NoDashboard
    /\ NoCalculation
    /\ NoDialog
    /\ NoGuard
    /\ \/ response \in {Some(r) : r \in SelectResponses("workouts", WorkoutRows)}
       \/ response \in {Some(r) : r \in SelectResponses("meals", MealRows)}
       \/ response \in {Some(r) : r \in SingleResponses("profiles", ProfileRows)}
    /\ fetched = None

FetchWorkouts ==
    /\ fetched = None
    /\ Val(response).table = "workouts"
    /\ fetched' = Some(getWorkouts(Val(response)))
    /\ UNCHANGED <<evalVars, storeVars, statsVars, streakVars, calcVars,
                   response, dialogVars, guardVars>>

FetchMeals ==
    /\ fetched = None
    /\ Val(response).table = "meals"
    /\ fetched' = Some(getMeals(Val(response)))
    /\ UNCHANGED <<evalVars, storeVars, statsVars, streakVars, calcVars,
                   response, dialogVars, guardVars>>

FetchProfile ==
    /\ fetched = None
    /\ Val(response).table = "profiles"
    /\ fetched' = Some(getProfile(Val(response)))
    /\ UNCHANGED <<evalVars, storeVars, statsVars, streakVars, calcVars,
                   response, dialogVars, guardVars>>

NextFetch ==
    \/ FetchWorkouts
    \/ FetchMeals
    \/ FetchProfile

SpecFetch == InitFetch /\ [][NextFetch]_vars

----------------------------------------------------------------------------
(* Failures of the remote store *)

Failed == IsSet(Val(response).error)

\* C22: when the store reports an error getWorkouts and getMeals return the
\* empty sequence and getProfile returns null; none of the three throws; and
\* what the two list fetches return is always a sequence of records with an
\* id, a date and numbers to sum.
C22_FailureIsEmpty ==
    IsSet(fetched) =>
        LET table == Val(response).table
            value == Val(fetched).value
        IN  /\ Val(fetched).outcome = "returned"
            /\ Failed /\ table \in {"workouts", "meals"} => value = <<>>
            /\ Failed /\ table = "profiles" => value = None
            /\ table = "workouts" =>
                 \A i \in 1..Len(value) :
                     /\ value[i].id \in WorkoutIds
                     /\ value[i].date \in {DayStr(d) : d \in Days}
                     /\ value[i].duration \in Nat
                     /\ value[i].caloriesBurned \in Nat
            /\ table = "meals" =>
                 \A i \in 1..Len(value) :
                     /\ value[i].id \in MealIds
                     /\ value[i].date \in {DayStr(d) : d \in Days}
                     /\ value[i].totalCalories \in Nat
                     /\ value[i].totalProtein \in Nat
                     /\ value[i].totalCarbs \in Nat
                     /\ value[i].totalFat \in Nat

\* getWorkouts has returned after the query failed for want of a network
C22_Witness ==
    /\ IsSet(fetched)
    /\ Val(response).table = "workouts"
    /\ Val(response).error = Some("Failed to fetch")
    /\ Val(fetched) = Returned(<<>>)

----------------------------------------------------------------------------
(* Properties of the store and of the statistics taken together *)

\* pairs of stored workouts <<j, k>>: j recurring and on the day by its rule
\* (the day is not its own date), k another record, not recurring, dated the
\* day, of the same exercise type
Overlapping(day) ==
    {p \in (DOMAIN workouts) \X (DOMAIN workouts) :
        /\ p[1] # p[2]
        /\ workouts[p[1]].recurring = Some(TRUE)
        /\ workouts[p[1]].date # format(day)
        /\ p[1] \in ActiveOn(day)
        /\ workouts[p[2]].recurring # Some(TRUE)
        /\ workouts[p[2]].date = format(day)
        /\ workouts[p[2]].exerciseType = workouts[p[1]].exerciseType}

\* C24: a recurring workout put on a day by its rule and another record,
\* not recurring, with that date and the same exercise type are both in the
\* day's entry: the count is two more and caloriesOut and workoutMinutes are
\* their values more than those of the other matched records; no stored
\* record is in one day's entry twice, in either storage order.
C24_NoImplicitMerge ==
    Rendered =>
        \A i \in DOMAIN periodData :
            LET e   == periodData[i]
                day == periodDates[i]
            IN  /\ \A j \in DOMAIN workouts :
                     Occurrences(e.workouts, workouts[j]) <= 1
                /\ e.workoutCount <= Len(workouts)
                /\ \A p \in Overlapping(day) :
                     LET others == ActiveOn(day) \ {p[1], p[2]}
                     IN  /\ Occurrences(e.workouts, workouts[p[1]]) = 1
                         /\ Occurrences(e.workouts, workouts[p[2]]) = 1
                         /\ e.workoutCount = Cardinality(others) + 2
                         /\ e.caloriesOut =
                              SumOver(others, workouts, "caloriesBurned")
                              + workouts[p[1]].caloriesBurned
                              + workouts[p[2]].caloriesBurned
                         /\ e.workoutMinutes =
                              SumOver(others, workouts, "duration")
                              + workouts[p[1]].duration
                              + workouts[p[2]].duration

\* a daily gym workout of 30 minutes dated Monday, stored after a gym
\* session of 60 minutes dated Saturday: Saturday's entry counts both
C24_Witness ==
    /\ Rendered
    /\ \E i \in DOMAIN periodData :
         /\ <<2, 1>> \in Overlapping(periodDates[i])
         /\ periodData[i].workoutCount = 2
         /\ periodData[i].workoutMinutes = 90
         /\ periodData[i].caloriesOut = 750

\* C30: in every render the minutes of the breakdown entries add up to the
\* period's workoutMinutes and their calories to its caloriesOut, and the
\* breakdown is empty exactly when the period's workoutCount is 0.
C30_BreakdownMatchesTotals ==
    Rendered =>
        /\ SumOver(DOMAIN Breakdown, Breakdown, "minutes") = Totals.workoutMinutes
        /\ SumOver(DOMAIN Breakdown, Breakdown, "calories") = Totals.caloriesOut
        /\ (Breakdown = <<>>) <=> (Totals.workoutCount = 0)

\* a period with two exercise types, one of them matched on several days
C30_Witness ==
    /\ Rendered
    /\ Len(Breakdown) = 2
    /\ Breakdown[1].type = "gym"
    /\ Breakdown[2].type = "running"
    /\ Totals.workoutCount >= 4
    /\ Totals.workoutMinutes = Breakdown[1].minutes + 45
    /\ Totals.caloriesOut = Breakdown[1].calories + 300

\* the records of a collection have pairwise different ids
UniqueIds(records) ==
    \A i, j \in DOMAIN records : records[i].id = records[j].id => i = j

\* what saving r makes of a collection: the record with r's id replaced at
\* its position, or r added at the end, everything else as it was
SaveEffect(records, after, r) ==
    IF \E i \in DOMAIN records : records[i].id = r.id
    THEN /\ Len(after) = Len(records)
         /\ \A i \in DOMAIN records :
              after[i] = IF records[i].id = r.id THEN r ELSE records[i]
    ELSE /\ Len(after) = Len(records) + 1
         /\ after[Len(after)] = r
         /\ SubSeq(after, 1, Len(records)) = records

\* what deleting id makes of a collection: no record with the id is left,
\* the others stay in their order, and nothing changes when none has the id
DeleteEffect(records, after, id) ==
    /\ \A i \in DOMAIN after : after[i].id # id
    /\ Len(after) = Cardinality({i \in DOMAIN records : records[i].id # id})
    /\ \A i \in DOMAIN records :
         records[i].id # id =>
            after[Cardinality({j \in 1..i : records[j].id # id})] = records[i]
    /\ (\A i \in DOMAIN records : records[i].id # id) => after = records

\* C28: in every store reached from the empty store by saves and deletes no
\* two workouts and no two meals share an id; saving from there replaces the
\* record of the same id in place or appends exactly one record, and
\* deleting removes the record of the id and changes nothing when there is
\* none.
C28_StoreKeyedById ==
    /\ UniqueIds(workouts)
    /\ UniqueIds(meals)
    /\ \A w \in WorkoutRecords :
         /\ SaveEffect(workouts, saveRecord(workouts, w), w)
         /\ UniqueIds(saveRecord(workouts, w))
    /\ \A m \in MealRecords :
         /\ SaveEffect(meals, saveRecord(meals, m), m)
         /\ UniqueIds(saveRecord(meals, m))
    /\ \A id \in WorkoutIds :
         DeleteEffect(workouts, deleteRecord(workouts, id), id)
    /\ \A id \in MealIds :
         DeleteEffect(meals, deleteRecord(meals, id), id)

\* both collections full, stored in the order of the second id first:
\* every save replaces a record and every delete removes one
C28_Witness ==
    /\ Len(workouts) = 2
    /\ Len(meals) = 2
    /\ workouts[1].id = "w2"
    /\ workouts[2].id = "w1"
    /\ meals[1].id = "m2"
    /\ \A w \in WorkoutRecords : Len(saveRecord(workouts, w)) = 2
    /\ \A id \in MealIds : Len(deleteRecord(meals, id)) = 1

----------------------------------------------------------------------------
(* lib/gemini.ts: the food analysis.  A number of a food item is <<n>> for
   the whole number n and NaN otherwise.  A value of the parsed response
   text is a JSON number, given in tenths, or a JSON string; a missing or
   null property is the empty option. *)

JsonNumber(tenths) == [type |-> "number", tenths |-> tenths, text |-> ""]
JsonString(text) == [type |-> "string", tenths |-> 0, text |-> text]

\* the strings a response carries in place of a number
NumberTexts == {"", "250", "unas 200"}

\* Number(text) in tenths, NaN for a text that is not a numeric literal
StringToNumber(text) ==
    CASE text = ""    -> Some(0)
      [] text = "250" -> Some(2500)
      [] OTHER        -> NaN

\* the conversion of a value to a number
ToNumber(v) == IF v.type = "number" THEN Some(v.tenths) ELSE StringToNumber(v.text)

\* the truthiness of a value: 0 and '' are falsy
TruthyJson(o) ==
    /\ IsSet(o)
    /\ IF Val(o).type = "number" THEN Val(o).tenths # 0 ELSE Val(o).text # ""

\* lines 72-75: Math.round(f.calories || 0)
RoundField(o) ==
    LET x == IF TruthyJson(o) THEN ToNumber(Val(o)) ELSE Some(0)
    IN  IF x = NaN THEN NaN ELSE Some(MathRoundDiv(Val(x), 10))

\* lines 70-76: one food of the response as a FoodItem
mapFood(f) ==
    [name     |-> IF IsSet(f.name) /\ Val(f.name) # "" THEN Val(f.name)
                  ELSE "Alimento",
     calories |-> RoundField(f.calories),
     protein  |-> RoundField(f.protein),
     carbs    |-> RoundField(f.carbs),
     fat      |-> RoundField(f.fat)]

\* lines 55-78: parseGeminiResponse; JSON.parse throws on a text that is not
\* JSON
parseGeminiResponse(text) ==
    IF text.syntax # "json" THEN Thrown("Unexpected token")
    ELSE IF text.foods.type # "array" \/ text.foods.items = <<>>
    THEN Thrown("No se pudieron detectar alimentos")
    ELSE Returned([mealType |-> text.mealType,
                   foods    |-> [i \in DOMAIN text.foods.items |->
                                    mapFood(text.foods.items[i])]])

\* lines 83-112: analyzeTextWithGemini, reply being what the environment
\* answers: whether the API key is configured, response.ok, and the text of
\* the first candidate
analyzeTextWithGemini(reply) ==
    IF ~reply.apiKey THEN Thrown("API key de Gemini no configurada")
    ELSE IF ~reply.ok THEN Thrown("Error de API")
    ELSE IF ~IsSet(reply.text) THEN Thrown("Respuesta vacia de Gemini")
    ELSE parseGeminiResponse(Val(reply.text))

\* lines 162-174 and 119-157: fileToBase64 and analyzeImageWithGemini; the
\* reader can fail on the file
analyzeImageWithGemini(reply) ==
    IF ~reply.fileRead THEN Thrown("")
    ELSE IF ~reply.apiKey THEN Thrown("API key de Gemini no configurada")
    ELSE IF ~reply.ok THEN Thrown("Error de API")
    ELSE IF ~IsSet(reply.text) THEN Thrown("Respuesta vacia de Gemini")
    ELSE parseGeminiResponse(Val(reply.text))

----------------------------------------------------------------------------
(* pages/Nutrition.tsx: the page and its meal dialog.  The dialog component
   stays mounted while the page is, so its state outlives the closing of the
   dialog.  Voice dictation and the image preview are left out. *)

\* largest value of dialogSession at which the dialog is still opened
MaxSessions == 3
\* largest number of analysis calls awaiting their result
MaxAnalyses == 2
\* largest number of food items in the form
MaxFoods == 2

\* String.prototype.trim on the texts of the model
WhitespaceOnly == {"", " "}
trim(s) == IF s \in WhitespaceOnly THEN "" ELSE s

\* lines 213, 234, 254: the empty food item
BlankFood ==
    [name |-> "", calories |-> Some(0), protein |-> Some(0), carbs |-> Some(0),
     fat |-> Some(0)]

\* everything outside the Nutrition page and the meal store
outsideNutrition ==
    <<evalVars, workouts, statsVars, streakVars, calcVars, fetchVars, guardVars>>

\* lines 226-239: the effect on [editing, open]
resetForm(editing) ==
    /\ mealType' = IF IsSet(editing) THEN Val(editing).mealType ELSE "lunch"
    /\ time' = IF IsSet(editing) THEN Val(editing).time ELSE "12:00"
    /\ foods' = IF IsSet(editing) /\ Len(Val(editing).foods) > 0
                THEN Val(editing).foods ELSE <<BlankFood>>
    /\ aiDescription' = ""
    /\ dialogSession' = dialogSession + 1

\* lines 83 and 143: the buttons that open the dialog for a new meal
openForm ==
    /\ ~showForm
    /\ dialogSession < MaxSessions
    /\ editingMeal' = None
    /\ showForm' = TRUE
    /\ resetForm(None)
    /\ UNCHANGED <<outsideNutrition, meals, isAnalyzing, inputMode, analyses,
                   toast>>

\* line 174: the edit button of a listed meal
editMeal ==
    \E i \in DOMAIN meals :
        /\ ~showForm
        /\ dialogSession < MaxSessions
        /\ editingMeal' = Some(meals[i])
        /\ showForm' = TRUE
        /\ resetForm(Some(meals[i]))
        /\ UNCHANGED <<outsideNutrition, meals, isAnalyzing, inputMode,
                       analyses, toast>>

\* lines 194 and 403: onClose, when the dialog is dismissed
onClose ==
    /\ showForm
    /\ showForm' = FALSE
    /\ editingMeal' = None
    /\ resetForm(None)
    /\ UNCHANGED <<outsideNutrition, meals, isAnalyzing, inputMode, analyses,
                   toast>>

\* what is typed into the name field and into the number fields of a food
TypedNames == {"", " ", "Pan"}
TypedNumbers == {"", "80"}
\* the number fields typed into, of calories, protein, carbs and fat
TypedFields == {"calories"}

\* line 571: parseFloat(e.target.value) || 0
parseFloatOrZero(text) == IF text = "80" THEN Some(80) ELSE Some(0)

\* lines 250-252, 549, 571: updateFood
updateFood ==
    \E i \in DOMAIN foods :
        /\ showForm
        /\ \/ \E name \in TypedNames :
                foods' = [foods EXCEPT ![i].name = name]
           \/ \E key \in TypedFields, text \in TypedNumbers :
                foods' = [foods EXCEPT ![i][key] = parseFloatOrZero(text)]
        /\ UNCHANGED <<outsideNutrition, meals, showForm, editingMeal, mealType,
                       time, aiDescription, isAnalyzing, inputMode, analyses,
                       toast, dialogSession>>

\* line 254: addFood
addFood ==
    /\ showForm
    /\ Len(foods) < MaxFoods
    /\ foods' = Append(foods, BlankFood)
    /\ UNCHANGED <<outsideNutrition, meals, showForm, editingMeal, mealType,
                   time, aiDescription, isAnalyzing, inputMode, analyses,
                   toast, dialogSession>>

\* lines 255 and 553: removeFood; the button is there while foods.length > 1
removeFood ==
    \E index \in DOMAIN foods :
        /\ showForm
        /\ Len(foods) > 1
        /\ foods' = [k \in 1..(Len(foods) - 1) |->
                        IF k < index THEN foods[k] ELSE foods[k + 1]]
        /\ UNCHANGED <<outsideNutrition, meals, showForm, editingMeal, mealType,
                       time, aiDescription, isAnalyzing, inputMode, analyses,
                       toast, dialogSession>>

\* what is typed into the description box
Descriptions == {"", " ", "tortilla de patatas"}

\* lines 485-489: the description box, there in text mode
setAiDescription ==
    \E text \in Descriptions :
        /\ showForm
        /\ inputMode = "text"
        /\ aiDescription' = text
        /\ UNCHANGED <<outsideNutrition, meals, showForm, editingMeal, mealType,
                       time, foods, isAnalyzing, inputMode, analyses, toast,
                       dialogSession>>

\* line 438: the Texto button
setInputMode ==
    /\ showForm
    /\ inputMode' = "text"
    /\ UNCHANGED <<outsideNutrition, meals, showForm, editingMeal, mealType,
                   time, foods, aiDescription, isAnalyzing, analyses, toast,
                   dialogSession>>

\* an analysis call at its await, with the dialogSession it was made in
Call(kind) == [kind |-> kind, session |-> dialogSession]

\* lines 348-362 and 517-519: analyzeWithAI up to its await; the button is
\* there in text mode and disabled while analyzing or without a description
analyzeWithAI ==
    /\ showForm
    /\ inputMode = "text"
    /\ ~isAnalyzing
    /\ trim(aiDescription) # ""
    /\ Len(analyses) < MaxAnalyses
    /\ isAnalyzing' = TRUE
    /\ analyses' = Append(analyses, Call("text"))
    /\ UNCHANGED <<outsideNutrition, meals, showForm, editingMeal, mealType,
                   time, foods, aiDescription, inputMode, toast, dialogSession>>

\* the files picked with the Foto button
Files == {[image |-> TRUE, large |-> FALSE], [image |-> FALSE, large |-> FALSE],
          [image |-> TRUE, large |-> TRUE]}

\* lines 452-453, 462-468 and 311-334: the Foto button and handleImageSelect
\* up to its await
handleImageSelect ==
    \E file \in Files :
        /\ showForm
        /\ inputMode' = "image"
        /\ IF ~file.image
           THEN /\ toast' = Some([type |-> "error",
                                  message |-> "Por favor, selecciona una imagen"])
                /\ UNCHANGED <<isAnalyzing, analyses>>
           ELSE IF file.large
           THEN /\ toast' = Some([type |-> "error",
                                  message |-> "La imagen es demasiado grande"])
                /\ UNCHANGED <<isAnalyzing, analyses>>
           ELSE /\ Len(analyses) < MaxAnalyses
                /\ isAnalyzing' = TRUE
                /\ analyses' = Append(analyses, Call("image"))
                /\ UNCHANGED toast
        /\ UNCHANGED <<outsideNutrition, meals, showForm, editingMeal, mealType,
                       time, foods, aiDescription, dialogSession>>

\* the foods of the responses
Tortilla ==
    [name |-> Some("Tortilla"), calories |-> Some(JsonNumber(2505)),
     protein |-> Some(JsonNumber(120)), carbs |-> Some(JsonNumber(54)),
     fat |-> Some(JsonNumber(180))]
Unnamed ==
    [name |-> None, calories |-> Some(JsonString("250")), protein |-> None,
     carbs |-> Some(JsonString("")), fat |-> Some(JsonNumber(0))]
Vague ==
    [name |-> Some("Pan"), calories |-> Some(JsonString("unas 200")),
     protein |-> Some(JsonNumber(80)), carbs |-> Some(JsonNumber(400)),
     fat |-> Some(JsonNumber(10))]

\* the texts of the responses
Json(mt, type, items) ==
    [syntax |-> "json", mealType |-> mt, foods |-> [type |-> type, items |-> items]]
NotJson ==
    [syntax |-> "text", mealType |-> None, foods |-> [type |-> "undefined", items |-> <<>>]]
ResponseTexts ==
    {NotJson,
     Json(Some("dinner"), "undefined", <<>>),
     Json(None, "string", <<>>),
     Json(Some("dinner"), "array", <<>>),
     Json(Some("dinner"), "array", <<Tortilla>>),
     Json(None, "array", <<Unnamed, Tortilla>>),
     Json(Some(""), "array", <<Vague>>)}

\* what the environment answers to a text call and to an image call
TextReplies ==
    {[fileRead |-> TRUE, apiKey |-> FALSE, ok |-> TRUE, text |-> None],
     [fileRead |-> TRUE, apiKey |-> TRUE, ok |-> FALSE, text |-> None],
     [fileRead |-> TRUE, apiKey |-> TRUE, ok |-> TRUE, text |-> None]}
    \cup {[fileRead |-> TRUE, apiKey |-> TRUE, ok |-> TRUE, text |-> Some(t)] :
            t \in ResponseTexts}
ImageReplies ==
    TextReplies
    \cup {[fileRead |-> FALSE, apiKey |-> TRUE, ok |-> TRUE, text |-> None]}

\* the sequence without its element i
RemoveAt(s, i) ==
    [k \in 1..(Len(s) - 1) |-> IF k < i THEN s[k] ELSE s[k + 1]]

\* lines 337-344 and 364-371: a call after its await: the rest of try, or
\* catch, and finally
settle(i, done, success, fallback) ==
    /\ IF done.outcome = "returned"
       THEN /\ foods' = done.value.foods
            /\ mealType' = IF IsSet(done.value.mealType)
                              /\ Val(done.value.mealType) # ""
                           THEN Val(done.value.mealType) ELSE mealType
            /\ toast' = Some([type |-> "success", message |-> success])
       ELSE /\ UNCHANGED <<foods, mealType>>
            /\ toast' = Some([type |-> "error",
                              message |-> IF done.value # "" THEN done.value
                                          ELSE fallback])
    /\ isAnalyzing' = FALSE
    /\ analyses' = RemoveAt(analyses, i)
    /\ UNCHANGED <<outsideNutrition, meals, showForm, editingMeal, time,
                   aiDescription, inputMode, dialogSession>>

\* lines 362-371: analyzeWithAI from its await on
analyzeWithAIResumes ==
    \E i \in DOMAIN analyses, reply \in TextReplies :
        /\ analyses[i].kind = "text"
        /\ settle(i, analyzeTextWithGemini(reply), "Analizado",
                  "Error al analizar la comida")

\* lines 334-344: handleImageSelect from its await on
handleImageSelectResumes ==
    \E i \in DOMAIN analyses, reply \in ImageReplies :
        /\ analyses[i].kind = "image"
        /\ settle(i, analyzeImageWithGemini(reply), "Imagen analizada",
                  "Error al analizar la imagen")

\* a + b of two numbers
Plus(a, b) == IF a = NaN \/ b = NaN THEN NaN ELSE Some(Val(a) + Val(b))

\* the totals taken over every item of the form
validFoods_All(items) == items

\* line 375: foods.filter(f => f.name.trim())
validFoods(items) == SelectSeq(items, LAMBDA f : trim(f.name) # "")

\* lines 380-388: validFoods.reduce(...), one field of the accumulator
RECURSIVE reduceFoods(_, _)
reduceFoods(items, field) ==
    IF items = <<>> THEN Some(0)
    ELSE Plus(reduceFoods(SubSeq(items, 1, Len(items) - 1), field),
              items[Len(items)][field])

\* line 39: the selected day of the page
dateStr == DayStr(FirstDay + 2)

\* lines 55-61: handleSave, and the effect that follows the closing
handleSave(meal) ==
    /\ meals' = saveRecord(meals, meal)
    /\ showForm' = FALSE
    /\ editingMeal' = None
    /\ toast' = Some([type |-> "success",
                      message |-> IF IsSet(editingMeal) THEN "Comida actualizada"
                                  ELSE "Comida registrada"])
    /\ resetForm(None)

\* line 390: editing?.id || generateId(); a generated id is a new one
mealIds ==
    IF IsSet(editingMeal) THEN {Val(editingMeal).id}
    ELSE MealIds \ {meals[i].id : i \in DOMAIN meals}

\* lines 374-400: handleSubmit
handleSubmit ==
    /\ showForm
    /\ IF validFoods(foods) = <<>>
       THEN /\ toast' = Some([type |-> "error",
                              message |-> "Anade al menos un alimento"])
            /\ UNCHANGED <<meals, showForm, editingMeal, mealType, time, foods,
                           aiDescription, dialogSession>>
       ELSE \E id \in mealIds :
                handleSave([id            |-> id,
                            date          |-> dateStr,
                            time          |-> time,
                            mealType      |-> mealType,
                            foods         |-> validFoods(foods),
                            totalCalories |-> reduceFoods(validFoods(foods), "calories"),
                            totalProtein  |-> reduceFoods(validFoods(foods), "protein"),
                            totalCarbs    |-> reduceFoods(validFoods(foods), "carbs"),
                            totalFat      |-> reduceFoods(validFoods(foods), "fat")])
    /\ UNCHANGED <<outsideNutrition, isAnalyzing, inputMode, analyses>>

\* a meal saved earlier
StoredMeal ==
    [id |-> "m1", date |-> dateStr, time |-> "21:30", mealType |-> "dinner",
     foods |-> <<[name |-> "Pan", calories |-> Some(80), protein |-> Some(3),
                  carbs |-> Some(15), fat |-> Some(1)]>>,
     totalCalories |-> Some(80), totalProtein |-> Some(3),
     totalCarbs |-> Some(15), totalFat |-> Some(1)]

\* the dialog has just been opened, for a new meal or for the stored one,
\* and a description typed
InitForm ==
    /\ workout = None
    /\ targetDate = None
    /\ result = None
    /\ workouts = <<>>
    /\ NoDashboard
    /\ NoCalculation
    /\ NoFetch
    /\ NoGuard
    /\ showForm = TRUE
    /\ \/ /\ meals = <<>>
          /\ editingMeal = None
       \/ /\ meals = <<StoredMeal>>
          /\ editingMeal \in {None, Some(StoredMeal)}
    /\ mealType = IF IsSet(editingMeal) THEN Val(editingMeal).mealType ELSE "lunch"
    /\ time = IF IsSet(editingMeal) THEN Val(editingMeal).time ELSE "12:00"
    /\ foods = IF IsSet(editingMeal) THEN Val(editingMeal).foods ELSE <<BlankFood>>
    /\ aiDescription = "tortilla de patatas"
    /\ isAnalyzing = FALSE
    /\ inputMode = "text"
    /\ analyses = <<>>
    /\ toast = None
    /\ dialogSession = 1

NextForm ==
    \/ updateFood
    \/ addFood
    \/ removeFood
    \/ analyzeWithAI
    \/ analyzeWithAIResumes
    \/ handleSubmit

SpecForm == InitForm /\ [][NextForm]_vars

\* the page is mounted with the dialog closed, over an empty store or over
\* the meal saved earlier
InitDialog ==
    /\ workout = None
    /\ targetDate = None
    /\ result = None
    /\ workouts = <<>>
    /\ meals \in {<<>>, <<StoredMeal>>}
    /\ NoDashboard
    /\ NoCalculation
    /\ NoFetch
    /\ NoGuard
    /\ showForm = FALSE
    /\ editingMeal = None
    /\ mealType = "lunch"
    /\ time = "12:00"
    /\ foods = <<BlankFood>>
    /\ aiDescription = ""
    /\ isAnalyzing = FALSE
    /\ inputMode = "text"
    /\ analyses = <<>>
    /\ toast = None
    /\ dialogSession = 0

NextDialog ==
    \/ openForm
    \/ editMeal
    \/ onClose
    \/ setAiDescription
    \/ setInputMode
    \/ analyzeWithAI
    \/ handleImageSelect
    \/ analyzeWithAIResumes
    \/ handleImageSelectResumes
    \/ handleSubmit

\* every call gets its answer or its failure in the end
SpecDialog ==
    InitDialog /\ [][NextDialog]_vars
    /\ WF_vars(analyzeWithAIResumes) /\ WF_vars(handleImageSelectResumes)

----------------------------------------------------------------------------
(* Properties of the meal dialog *)

\* the positions of the form's items whose name is not blank
NamedItems == {i \in DOMAIN foods : foods[i].name \notin WhitespaceOnly}

\* the sum of a field over the food items, NaN if one of them is
SumOfFoods(items, field) ==
    IF \E i \in DOMAIN items : items[i][field] = NaN THEN NaN
    ELSE Some(SumOver(DOMAIN items,
                      [i \in DOMAIN items |-> [n |-> Val(items[i][field])]], "n"))

\* the totals of a meal record are the sums over its foods, all of them named
TotalsOfOwnFoods(m) ==
    /\ m.foods # <<>>
    /\ \A i \in DOMAIN m.foods : m.foods[i].name \notin WhitespaceOnly
    /\ m.totalCalories = SumOfFoods(m.foods, "calories")
    /\ m.totalProtein = SumOfFoods(m.foods, "protein")
    /\ m.totalCarbs = SumOfFoods(m.foods, "carbs")
    /\ m.totalFat = SumOfFoods(m.foods, "fat")

\* C23: a submit of the form stores nothing when no item has a name that is
\* not blank; otherwise it stores one record, in place of the edited one or
\* as a new last one, whose foods are the form's named items in their order
\* and whose four totals are the sums of the fields over those foods; every
\* other stored record stays, and every stored record has these totals.
C23_SavedTotals ==
    [][handleSubmit =>
        IF NamedItems = {} THEN meals' = meals
        ELSE /\ \E j \in DOMAIN meals' :
                  /\ Len(meals'[j].foods) = Cardinality(NamedItems)
                  /\ \A i \in NamedItems :
                       meals'[j].foods[Cardinality({k \in NamedItems : k <= i})]
                          = foods[i]
                  /\ IF IsSet(editingMeal)
                     THEN Len(meals') = Len(meals)
                          /\ meals[j].id = Val(editingMeal).id
                     ELSE Len(meals') = Len(meals) + 1 /\ j = Len(meals')
                  /\ \A k \in DOMAIN meals : k # j => meals'[k] = meals[k]
             /\ \A j \in DOMAIN meals' : TotalsOfOwnFoods(meals'[j])
    ]_vars

\* a second meal saved after an analysis that returned a nameless food and
\* a tortilla at 251 kcal without a meal type: the first item is gone or its
\* name blanked, the calories of the tortilla are typed over
C23_Witness ==
    /\ ~showForm
    /\ Len(meals) = 2
    /\ meals[2].mealType = "lunch"
    /\ Len(meals[2].foods) = 1
    /\ meals[2].foods[1].name = "Tortilla"
    /\ meals[2].totalCalories = Some(80)
    /\ meals[2].totalFat = Some(18)
    /\ Val(toast).message = "Comida registrada"

\* C25: whenever an analysis call, of a description or of a photo, awaits
\* its result, isAnalyzing is true, and no two calls await their result at
\* the same time.
C25_FlagWhileInFlight ==
    /\ analyses # <<>> => isAnalyzing
    /\ Len(analyses) <= 1

\* C26: a call that resumes while the dialog is open and that was made
\* before the form was last reset (the dialog closed, opened again or opened
\* on another meal since) changes neither the foods nor the meal type of the
\* form.
C26_OnlyOwnSession ==
    [][\A i \in DOMAIN analyses :
          (/\ analyzeWithAIResumes \/ handleImageSelectResumes
           /\ analyses' = RemoveAt(analyses, i)
           /\ analyses[i].session # dialogSession
           /\ showForm)
          => foods' = foods /\ mealType' = mealType
    ]_vars

\* the replies the claim lists as failures: no API key, a response that is
\* not OK, no text, a text that is not JSON, foods missing or empty
FailureReplies ==
    {reply \in TextReplies :
        \/ ~reply.apiKey
        \/ ~reply.ok
        \/ ~IsSet(reply.text)
        \/ Val(reply.text).syntax # "json"
        \/ Val(reply.text).foods.type = "undefined"
        \/ Val(reply.text).foods.items = <<>>}

\* a whole number, which NaN is not
IsInteger(x) == x # NaN /\ Val(x) \in Int

\* at least one food, and the four numbers of every food whole
WellFormedFoods(items) ==
    /\ items # <<>>
    /\ \A i \in DOMAIN items :
         /\ IsInteger(items[i].calories)
         /\ IsInteger(items[i].protein)
         /\ IsInteger(items[i].carbs)
         /\ IsInteger(items[i].fat)

\* C27: each listed failure makes the analysis throw; a call that ends in a
\* failure leaves the form's foods and meal type as they were, reports an
\* error and resets isAnalyzing; a call that succeeds puts at least one food
\* into the form and every food's calories, protein, carbs and fat are whole
\* numbers; a pending call is always followed by isAnalyzing being false.
C27_FailureKeepsForm ==
    /\ [][(analyzeWithAIResumes \/ handleImageSelectResumes) =>
            /\ \A reply \in FailureReplies :
                 analyzeTextWithGemini(reply).outcome = "thrown"
            /\ ~isAnalyzing'
            /\ IsSet(toast')
            /\ IF Val(toast').type = "error"
               THEN foods' = foods /\ mealType' = mealType
               ELSE WellFormedFoods(foods')
         ]_vars
    /\ (analyses # <<>>) ~> ~isAnalyzing

----------------------------------------------------------------------------
(* App.tsx and contexts/AuthContext.tsx: the routes behind AuthGuard.  A
   render, the effects it runs and the redirect it makes are one step with
   the event that caused it. *)

\* largest number of getProfile calls pending at a time
MaxFetches == 2

Users == {"A", "B"}

\* the sessions supabase reports: none, or the session of a user
Sessions == {None} \cup {Some(u) : u \in Users}

\* App.tsx lines 32-42: what AuthGuard returns
guardView(ld, u, done) ==
    IF ld \/ (IsSet(u) /\ done = None) THEN "spinner"
    ELSE IF ~IsSet(u) THEN "/auth"
    ELSE IF ~Val(done) THEN "/onboarding"
    ELSE "children"

\* a new AuthGuard under the route: useState(null), and the effect of lines
\* 25-30 calls getProfile when there is a user
mountGuard(u) ==
    [location |-> "/dashboard", onboardingDone |-> None,
     profileFetches |-> IF IsSet(u) THEN <<Val(u)>> ELSE <<>>,
     fetchedFor |-> None]

\* the route left: AuthGuard is unmounted, its state is gone and the calls
\* it awaits no longer reach a component
leaveGuard(to) ==
    [location |-> to, onboardingDone |-> None, profileFetches |-> <<>>,
     fetchedFor |-> None]

\* App.tsx lines 46-69 and 21-43: the routes rendered with the session u
\* and the guard's state, and Navigate followed; wasLoading says that
\* AppRoutes showed its spinner before, userSet that setUser was called with
\* a user object
routes(loc, wasLoading, userSet, u, done, fetches, from) ==
    LET kept == [location |-> loc, onboardingDone |-> done,
                 profileFetches |-> fetches, fetchedFor |-> from]
    IN  CASE loc = "/auth" ->
                IF IsSet(u) THEN mountGuard(u) ELSE kept
          [] loc = "/onboarding" ->
                IF IsSet(u) THEN kept ELSE leaveGuard("/auth")
          [] loc = "/dashboard" ->
                LET g == IF wasLoading THEN mountGuard(u)
                         ELSE IF userSet /\ IsSet(u)
                         THEN [kept EXCEPT !.profileFetches = Append(fetches, Val(u))]
                         ELSE kept
                    view == guardView(FALSE, u, g.onboardingDone)
                IN  IF view \in {"/auth", "/onboarding"} THEN leaveGuard(view)
                    ELSE g

\* AuthContext.tsx lines 23-27 and 31-35: setSession, setUser,
\* setLoading(false), and the render that follows
reportSession(s) ==
    LET r == routes(location, loading, TRUE, s, onboardingDone, profileFetches,
                    fetchedFor)
    IN  /\ Len(r.profileFetches) <= MaxFetches
        /\ user' = s
        /\ loading' = FALSE
        /\ location' = r.location
        /\ onboardingDone' = r.onboardingDone
        /\ profileFetches' = r.profileFetches
        /\ fetchedFor' = r.fetchedFor
        /\ UNCHANGED <<evalVars, storeVars, statsVars, streakVars, calcVars,
                       fetchVars, dialogVars, profiles>>

\* AuthContext.tsx lines 23-27: getSession() resolves
getSessionResolves ==
    \E s \in Sessions :
        /\ loading
        /\ reportSession(s)

\* AuthContext.tsx lines 30-35: the onAuthStateChange listener
onAuthStateChange ==
    \E s \in Sessions : reportSession(s)

\* the query of getProfile(id) resolved over the table
ProfileResponses(id) ==
    {IF IsSet(profiles[id])
     THEN [table |-> "profiles", data |-> profiles[id], error |-> None]
     ELSE [table |-> "profiles", data |-> None, error |-> Some("no rows")],
     [table |-> "profiles", data |-> None, error |-> Some("Failed to fetch")]}

\* App.tsx line 28: profile?.onboardingComplete ?? false
onboardingOf(p) == IF IsSet(p) THEN Val(p).onboardingComplete ELSE FALSE

\* App.tsx lines 27-29: a pending getProfile resolves and the callback runs
profileResolves ==
    \E i \in DOMAIN profileFetches :
        \E res \in ProfileResponses(profileFetches[i]) :
            LET done == Some(onboardingOf(getProfile(res).value))
                r == routes(location, FALSE, FALSE, user, done,
                            RemoveAt(profileFetches, i), Some(profileFetches[i]))
            IN  /\ location' = r.location
                /\ onboardingDone' = r.onboardingDone
                /\ profileFetches' = r.profileFetches
                /\ fetchedFor' = r.fetchedFor
                /\ UNCHANGED <<evalVars, storeVars, statsVars, streakVars,
                               calcVars, fetchVars, dialogVars, loading, user,
                               profiles>>

\* the row the onboarding page saves
OnboardedRow ==
    [age |-> Some(30), weight |-> Some(80), height |-> Some(180),
     sex |-> Some("female"), activity_level |-> Some("active"),
     goal |-> Some("lose_fat"), onboarding_complete |-> Some(TRUE)]

\* Onboarding.tsx lines 27-47: handleSubmit saves the profile of the user
\* and navigates to /dashboard
completeOnboarding ==
    /\ ~loading
    /\ location = "/onboarding"
    /\ IsSet(user)
    /\ profiles' = [profiles EXCEPT ![Val(user)] = Some(OnboardedRow)]
    /\ LET r == mountGuard(user)
       IN  /\ location' = r.location
           /\ onboardingDone' = r.onboardingDone
           /\ profileFetches' = r.profileFetches
           /\ fetchedFor' = r.fetchedFor
    /\ UNCHANGED <<evalVars, storeVars, statsVars, streakVars, calcVars,
                   fetchVars, dialogVars, loading, user>>

\* the app is loaded at a route; every user has no row, the row of signUp
\* or a complete one
InitGuard ==
    /\ workout = None
    /\ targetDate = None
    /\ result = None
    /\ workouts = <<>>
    /\ meals = <<>>
    /\ NoDashboard
    /\ NoCalculation
    /\ NoFetch
    /\ NoDialog
    /\ loading = TRUE
    /\ user = None
    /\ location \in {"/auth", "/onboarding", "/dashboard"}
    /\ onboardingDone = None
    /\ profileFetches = <<>>
    /\ fetchedFor = None
    /\ profiles \in [Users -> {None} \cup {Some(row) : row \in ProfileRows}]

NextGuard ==
    \/ getSessionResolves
    \/ onAuthStateChange
    \/ profileResolves
    \/ completeOnboarding

SpecGuard == InitGuard /\ [][NextGuard]_vars

\* AuthGuard is rendered
GuardMounted == ~loading /\ location = "/dashboard"

\* C29: AuthGuard shows the pages only when a user is signed in and the
\* onboardingComplete it holds is true and was fetched for that user; it
\* shows the spinner as long as no profile fetched for the signed-in user
\* has arrived; without a user, and with a profile missing or not
\* onboarded, it has redirected.
C29_GuardByOwnProfile ==
    GuardMounted =>
        LET view == guardView(loading, user, onboardingDone)
        IN  /\ view \in {"spinner", "children"}
            /\ view = "children" =>
                 /\ IsSet(user)
                 /\ onboardingDone = Some(TRUE)
                 /\ fetchedFor = user
            /\ (IsSet(user) /\ fetchedFor # user) => view = "spinner"

====
